---- MODULE Spec2Model ----
(***************************************************************************)
(* Risk scoring engine of claims_likelihood_gb (src/utils.py).             *)
(*                                                                         *)
(* Numbers.  A Python float is held as an exact integer count of           *)
(* hundredths (FloatScale per unit).  A category sub-score is held in      *)
(* SubUnit-ths of a point (so that the means over 3 and over 4 components  *)
(* are exact) and the overall score in OverallUnit-ths of a point (so that *)
(* the products with the weights 0.25/0.30/0.25/0.20 are exact).           *)
(* round(x, 1) yields a count of tenths.  The arithmetic is exact; the     *)
(* last-bit noise of IEEE doubles is not modelled.                         *)
(*                                                                         *)
(* Text.  A Python str that the code scans character by character is a     *)
(* sequence of one-character strings; a str that is only used as a         *)
(* dictionary key or compared for equality is a TLA+ string.               *)
(***************************************************************************)
EXTENDS Integers, Sequences, FiniteSets, TLC

\* ------------------------------------------------------------------ bounds
MaxEdits == 1        \* size of an input: edited fields of the record plus ledger rows
MaxCount == 20       \* the largest claim count on which the count buckets are compared

\* ------------------------------------------------------------------ units
FloatScale  == 100
SubUnit     == 1200
OverallUnit == 120000

\* ------------------------------------------------------------ cell values
\* A cell of a pandas row: the key is absent, the cell is NaN/None, the
\* cell is a str, or the cell is a number.
Absent    == [k |-> "absent", s |-> <<>>, v |-> 0]
NaN       == [k |-> "nan",    s |-> <<>>, v |-> 0]
Str(t)    == [k |-> "str",    s |-> t,    v |-> 0]
Num(n)    == [k |-> "num",    s |-> <<>>, v |-> n * FloatScale]
CatAbsent == [k |-> "absent", s |-> "", v |-> 0]
CatNaN    == [k |-> "nan",    s |-> "", v |-> 0]
Cat(t)    == [k |-> "str",    s |-> t,  v |-> 0]
\* a list, or another object that is neither text nor a number
ListCell  == [k |-> "list",   s |-> <<>>, v |-> 0]

\* pd.isna(val)
isna(val) == val.k = "nan"

\* row.get(key): None when the key is absent
get(row, key) == IF row[key].k = "absent" THEN NaN ELSE row[key]

\* a read that ignores the default the caller names: an absent key reads ''
getCat_blank(row, key, default) ==
    IF row[key].k = "absent" THEN Cat("") ELSE row[key]

\* row.get(key, default) for a categorical cell
getCat(row, key, default) ==
    IF row[key].k = "absent" THEN Cat(default) ELSE row[key]

\* ------------------------------------------------------------- characters
Digits == {"0", "1", "2", "3", "4", "5", "6", "7", "8", "9"}

DigitVal ==
    ("0" :> 0) @@ ("1" :> 1) @@ ("2" :> 2) @@ ("3" :> 3) @@ ("4" :> 4) @@
    ("5" :> 5) @@ ("6" :> 6) @@ ("7" :> 7) @@ ("8" :> 8) @@ ("9" :> 9)

RECURSIVE lstrip(_)
lstrip(s) == IF s # <<>> /\ Head(s) = " " THEN lstrip(Tail(s)) ELSE s

RECURSIVE rstrip(_)
rstrip(s) ==
    IF s # <<>> /\ s[Len(s)] = " " THEN rstrip(SubSeq(s, 1, Len(s) - 1)) ELSE s

\* str.strip()
strip(s) == rstrip(lstrip(s))

\* str.replace(c, '') for each character c of a set
RemoveChars(s, cs) == SelectSeq(s, LAMBDA c : c \notin cs)

RECURSIVE DigitsValue(_)
DigitsValue(s) ==
    IF s = <<>> THEN 0
    ELSE DigitsValue(SubSeq(s, 1, Len(s) - 1)) * 10 + DigitVal[s[Len(s)]]

AllDigits(s) == \A i \in 1..Len(s) : s[i] \in Digits

\* position of the first "." of s, 0 when there is none
DotPos(s) ==
    IF \E i \in 1..Len(s) : s[i] = "."
    THEN CHOOSE i \in 1..Len(s) : s[i] = "." /\ \A j \in 1..(i - 1) : s[j] # "."
    ELSE 0

\* the value of the digits, in hundredths
float_digits(neg, ip, fp) ==
    LET frac == IF Len(fp) = 0 THEN 0
                ELSE IF Len(fp) = 1 THEN DigitVal[fp[1]] * 10
                ELSE DigitVal[fp[1]] * 10 + DigitVal[fp[2]]
        mag  == DigitsValue(ip) * FloatScale + frac
    IN  IF AllDigits(ip) /\ AllDigits(fp) /\ Len(ip) + Len(fp) > 0 /\ Len(fp) <= 2
        THEN [ok |-> TRUE, v |-> IF neg THEN 0 - mag ELSE mag]
        ELSE [ok |-> FALSE, v |-> 0]

\* the integer part and the fractional part, either side of the first "."
float_point(neg, body) ==
    IF DotPos(body) = 0 THEN float_digits(neg, body, <<>>)
    ELSE float_digits(neg, SubSeq(body, 1, DotPos(body) - 1),
                      SubSeq(body, DotPos(body) + 1, Len(body)))

\* the sign, and the text after it
float_sign(t) ==
    float_point(t # <<>> /\ Head(t) = "-",
                IF t # <<>> /\ Head(t) \in {"-", "+"} THEN Tail(t) ELSE t)

\* float(text): [ok |-> FALSE] stands for ValueError.  Decimal literals with at
\* most two fractional digits, optionally signed and surrounded by blanks.
\* Exponents, "nan" and "inf" are outside the modelled texts.
float(text) == float_sign(strip(text))

\* --------------------------------------------------- attribute normalizer
\* a normalizer that gives 0 for what it cannot parse
safe_float_zero(val, default) ==
    IF isna(val) \/ (val.k = "str" /\ val.s = <<>>) THEN default
    ELSE IF val.k = "list" THEN 0
    ELSE IF val.k = "num" THEN val.v
    ELSE LET f == float(RemoveChars(strip(val.s), {"$", ",", "%"}))
         IN  IF f.ok THEN f.v ELSE 0

\* safe_float(val, default); default and result in hundredths.  A numeric
\* cell goes through str() and float(), which returns the same double.  For a
\* list, pd.isna gives an array whose truth value raises ValueError, or the
\* text of the list fails to parse: both are caught.
safe_float(val, default) ==
    IF isna(val) \/ (val.k = "str" /\ val.s = <<>>) THEN default
    ELSE IF val.k = "list" THEN default
    ELSE IF val.k = "num" THEN val.v
    ELSE LET f == float(RemoveChars(strip(val.s), {"$", ",", "%"}))
         IN  IF f.ok THEN f.v ELSE default

\* int(x) of a float held in hundredths: truncation toward zero
trunc(x) == IF x >= 0 THEN x \div FloatScale ELSE 0 - ((0 - x) \div FloatScale)

\* safe_int(val, default); default and result are whole numbers
safe_int(val, default) == trunc(safe_float(val, default * FloatScale))

\* ---------------------------------------------------------- lookup tables
\* the construction table with two of its scores exchanged
CONSTRUCTION_RISK_exchanged ==
    ("Fire Resistive" :> 10) @@ ("Non-Combustible" :> 50) @@
    ("Masonry Non-Combustible" :> 30) @@ ("Joisted Masonry" :> 25) @@
    ("Frame" :> 80)

CONSTRUCTION_RISK ==
    ("Fire Resistive" :> 10) @@ ("Non-Combustible" :> 25) @@
    ("Masonry Non-Combustible" :> 30) @@ ("Joisted Masonry" :> 50) @@
    ("Frame" :> 80)

ROOF_CONDITION_RISK ==
    ("New" :> 10) @@ ("Very Good" :> 20) @@ ("Good" :> 30) @@
    ("Fair" :> 50) @@ ("Poor" :> 80)

FEMA_FLOOD_ZONE_RISK ==
    ("X" :> 10) @@ ("D" :> 20) @@ ("A" :> 50) @@ ("AE" :> 60) @@ ("VE" :> 90)

EARTHQUAKE_ZONE_RISK ==
    ("Zone 0" :> 10) @@ ("Zone 1" :> 25) @@ ("Zone 2" :> 45) @@
    ("Zone 3" :> 65) @@ ("Zone 4" :> 85)

BURGLAR_ALARM_RISK ==
    ("Central Station" :> 10) @@ ("Video Verified" :> 20) @@
    ("Monitored" :> 35) @@ ("Local" :> 50) @@ ("None" :> 80)

\* a lookup whose fallback is 0 whatever default the caller names
Lookup_zero(table, cell, default) ==
    IF cell.k = "str" /\ cell.s \in DOMAIN table THEN table[cell.s] ELSE 0

\* TABLE.get(cell, default): a NaN cell is no key of any table
Lookup(table, cell, default) ==
    IF cell.k = "str" /\ cell.s \in DOMAIN table THEN table[cell.s] ELSE default

\* ------------------------------------------------------------ small helpers
RECURSIVE SumSeq(_)
SumSeq(s) == IF s = <<>> THEN 0 ELSE Head(s) + SumSeq(Tail(s))

\* a notable factor: which rule fired, and the value its text reports
Factor(kind, s, n) == [kind |-> kind, s |-> s, n |-> n]

\* the largest component in place of the mean
Mean_largest(scores) ==
    SubUnit * (CHOOSE m \in {scores[i] : i \in 1..Len(scores)} :
                  \A i \in 1..Len(scores) : scores[i] <= m)

\* sum(scores) / len(scores), components in points, result in SubUnit-ths
Mean(scores) == (SumSeq(scores) * SubUnit) \div Len(scores)

\* the same for components held in hundredths of a point
MeanF(scores) == (SumSeq(scores) * (SubUnit \div FloatScale)) \div Len(scores)

\* -------------------------------------------------------- property risk
\* a sprinkler component whose middle band starts at 30
SprinklerScore_inclusive(sprinkler_pct) ==
    IF sprinkler_pct > 70 * FloatScale THEN 20
    ELSE IF sprinkler_pct >= 30 * FloatScale THEN 45
    ELSE 75

\* if sprinkler_pct > 70: 20 / elif sprinkler_pct > 30: 45 / else: 75
SprinklerScore(sprinkler_pct) ==
    IF sprinkler_pct > 70 * FloatScale THEN 20
    ELSE IF sprinkler_pct > 30 * FloatScale THEN 45
    ELSE 75

\* the scoring of calculate_property_risk, on the values read from the row
property_risk_of(construction, year_built, roof, sprinkler_pct) ==
    LET construction_score == Lookup(CONSTRUCTION_RISK, construction, 50)
        current_year       == 2025
        age                == current_year - year_built
        age_score          == IF age > 50 THEN 80 ELSE IF age > 25 THEN 50 ELSE 20
        roof_score         == Lookup(ROOF_CONDITION_RISK, roof, 50)
        sprinkler_score    == SprinklerScore(sprinkler_pct)
        factors ==
            (IF construction_score >= 60
             THEN <<Factor("Construction Type", construction.s, construction_score)>>
             ELSE <<>>)
            \o (IF age > 50 THEN <<Factor("Building Age", "", age)>> ELSE <<>>)
            \o (IF roof_score >= 60
                THEN <<Factor("Roof Condition", roof.s, roof_score)>> ELSE <<>>)
            \o (IF sprinkler_score = 75
                THEN <<Factor("Low Sprinkler Coverage", "", sprinkler_pct)>>
                ELSE <<>>)
        scores == <<construction_score, age_score, roof_score, sprinkler_score>>
    IN  [score     |-> Mean(scores),
         factors   |-> factors,
         scores    |-> scores,
         breakdown |-> <<Factor("Construction Type", construction.s, construction_score),
                         Factor("Year Built", "", year_built),
                         Factor("Roof Condition", roof.s, roof_score),
                         Factor("Sprinkler Coverage", "", sprinkler_pct)>>]

\* a year built that falls back to the current year
YearBuilt_current(yb) ==
    IF isna(yb) \/ (yb.k = "str" /\ yb.s = <<>>) THEN 2025 ELSE safe_int(yb, 2025)

\* year_built: 1970 for a missing or empty cell, else safe_int(cell, 1970)
YearBuilt(yb) ==
    IF isna(yb) \/ (yb.k = "str" /\ yb.s = <<>>) THEN 1970 ELSE safe_int(yb, 1970)

calculate_property_risk(row) ==
    property_risk_of(getCat(row, "Construction Type", "Frame"),
                     YearBuilt(get(row, "Year Built")),
                     getCat(row, "Verified Roof Condition", "Fair"),
                     safe_float(get(row, "Sprinklered %"), 50 * FloatScale))

\* ------------------------------------------------------------ text helpers
\* needle in hay
Contains(hay, needle) ==
    \E i \in 0..(Len(hay) - Len(needle)) : SubSeq(hay, i + 1, i + Len(needle)) = needle

\* str.replace(old, new), leftmost non-overlapping occurrences; old is not empty
RECURSIVE Replace(_, _, _)
Replace(s, old, new) ==
    IF Len(s) < Len(old) THEN s
    ELSE IF SubSeq(s, 1, Len(old)) = old
         THEN new \o Replace(SubSeq(s, Len(old) + 1, Len(s)), old, new)
         ELSE <<Head(s)>> \o Replace(Tail(s), old, new)

LowerOf ==
    ("A" :> "a") @@ ("B" :> "b") @@ ("C" :> "c") @@ ("D" :> "d") @@ ("E" :> "e") @@
    ("F" :> "f") @@ ("G" :> "g") @@ ("H" :> "h") @@ ("I" :> "i") @@ ("J" :> "j") @@
    ("K" :> "k") @@ ("L" :> "l") @@ ("M" :> "m") @@ ("N" :> "n") @@ ("O" :> "o") @@
    ("P" :> "p") @@ ("Q" :> "q") @@ ("R" :> "r") @@ ("S" :> "s") @@ ("T" :> "t") @@
    ("U" :> "u") @@ ("V" :> "v") @@ ("W" :> "w") @@ ("X" :> "x") @@ ("Y" :> "y") @@
    ("Z" :> "z")

\* str.lower()
lower(s) == [i \in 1..Len(s) |-> IF s[i] \in DOMAIN LowerOf THEN LowerOf[s[i]] ELSE s[i]]

\* sep.join(parts)
RECURSIVE Join(_, _)
Join(parts, sep) ==
    IF parts = <<>> THEN <<>>
    ELSE IF Len(parts) = 1 THEN parts[1]
    ELSE parts[1] \o sep \o Join(Tail(parts), sep)

\* str(cell) of a text cell: NaN prints as "nan"
T_nan == <<"n", "a", "n">>
str(cell) == IF cell.k = "nan" THEN T_nan ELSE cell.s

\* the suffix abbreviations of the address matcher, in dictionary order
replacements ==
    << <<<<"s","t","r","e","e","t">>,             <<"s","t">>>>,
       <<<<"a","v","e","n","u","e">>,             <<"a","v","e">>>>,
       <<<<"r","o","a","d">>,                     <<"r","d">>>>,
       <<<<"b","o","u","l","e","v","a","r","d">>, <<"b","l","v","d">>>>,
       <<<<"d","r","i","v","e">>,                 <<"d","r">>>>,
       <<<<"p","l","a","c","e">>,                 <<"p","l">>>>,
       <<<<"l","a","n","e">>,                     <<"l","n">>>>,
       <<<<"c","o","u","r","t">>,                 <<"c","t">>>> >>

\* for full, abbr in replacements.items(): s = s.replace(full, abbr).replace('.', '')
RECURSIVE Normalize(_, _)
Normalize(s, i) ==
    IF i > Len(replacements) THEN s
    ELSE Normalize(RemoveChars(Replace(s, replacements[i][1], replacements[i][2]), {"."}),
                   i + 1)

\* ----------------------------------------------------------- claims ledger
\* A DataFrame: its column names in order, and its rows, each a sequence of
\* cells aligned with the columns.  NoLedger is claims_df = None.
NoLedger == [present |-> FALSE, cols |-> <<>>, rows |-> <<>>]
Ledger(cols, rows) == [present |-> TRUE, cols |-> cols, rows |-> rows]

\* DataFrame.empty
empty(df) == Len(df.rows) = 0 \/ Len(df.cols) = 0

\* column names, keywords and loss-type words, as texts
C_AgencyCustomerID == <<"A","g","e","n","c","y"," ","C","u","s","t","o","m","e","r"," ","I","D">>
C_StreetAddress == <<"S","t","r","e","e","t"," ","A","d","d","r","e","s","s">>
C_Location == <<"L","o","c","a","t","i","o","n">>
C_AmountPaid == <<"A","m","o","u","n","t"," ","P","a","i","d">>
C_TotalIncurred == <<"T","o","t","a","l"," ","I","n","c","u","r","r","e","d">>
C_Type == <<"T","y","p","e">>
C_CauseOfLoss == <<"C","a","u","s","e"," ","o","f"," ","L","o","s","s">>
C_Description == <<"D","e","s","c","r","i","p","t","i","o","n">>
K_address == <<"a","d","d","r","e","s","s">>
K_location == <<"l","o","c","a","t","i","o","n">>
K_incurred == <<"i","n","c","u","r","r","e","d">>
K_paid == <<"p","a","i","d">>
K_total_amount == <<"t","o","t","a","l"," ","a","m","o","u","n","t">>
K_payment == <<"p","a","y","m","e","n","t">>
K_claim_amount == <<"c","l","a","i","m"," ","a","m","o","u","n","t">>
K_type == <<"t","y","p","e">>
K_cause == <<"c","a","u","s","e">>
K_reason == <<"r","e","a","s","o","n">>
K_desc == <<"d","e","s","c">>
T_Fire == <<"F","i","r","e">>
T_Flood == <<"F","l","o","o","d">>
T_Tornado == <<"T","o","r","n","a","d","o">>
T_Theft == <<"T","h","e","f","t">>
T_Vandalism == <<"V","a","n","d","a","l","i","s","m">>
T_NA == <<"N","/","A">>
T_sep == <<","," ">>

\* [c for c in claims_df.columns if any(k in c.lower() for k in keywords)], as
\* the ascending sequence of the column positions
RECURSIVE ColsFrom(_, _, _)
ColsFrom(df, keywords, i) ==
    IF i > Len(df.cols) THEN <<>>
    ELSE (IF \E k \in keywords : Contains(lower(df.cols[i]), k) THEN <<i>> ELSE <<>>)
         \o ColsFrom(df, keywords, i + 1)

ColsWith(df, keywords) == ColsFrom(df, keywords, 1)

\* position of a column by exact name, 0 when the ledger has none
ColPos(df, name) ==
    IF \E i \in 1..Len(df.cols) : df.cols[i] = name
    THEN CHOOSE i \in 1..Len(df.cols) :
             df.cols[i] = name /\ \A j \in 1..(i - 1) : df.cols[j] # name
    ELSE 0

\* claims_df[mask]: the positions of the rows the boolean mask selects, ascending
RECURSIVE RowsFrom(_, _, _)
RowsFrom(df, mask, i) ==
    IF i > Len(df.rows) THEN <<>>
    ELSE (IF mask[i] THEN <<i>> ELSE <<>>) \o RowsFrom(df, mask, i + 1)

RowsWhere(df, mask) == RowsFrom(df, mask, 1)

\* ----------------------------------------------------------- claims matcher
\* 1. rows whose 'Agency Customer ID' equals the record's identifier.  A None
\*    or empty identifier is falsy; a NaN identifier equals no cell.
IdMatches(row, df) ==
    LET row_id == get(row, "Agency Customer ID")
        col    == ColPos(df, C_AgencyCustomerID)
        Same(r) == r[col].k = "str" /\ r[col].s = row_id.s
    IN  IF row_id.k = "str" /\ row_id.s # "" /\ col # 0
        THEN RowsWhere(df, [i \in 1..Len(df.rows) |-> Same(df.rows[i])]) ELSE <<>>

\* str(row.get('Street Address', '')).lower().strip()
RowAddr(row) ==
    IF row["Street Address"].k = "absent" THEN <<>>
    ELSE strip(lower(str(row["Street Address"])))

\* the matches of one address-like column: raw substring first, then normalized
AddrMatchesIn(row, df, ac) ==
    LET row_addr      == RowAddr(row)
        row_addr_norm == Normalize(row_addr, 1)
        Raw(r)        == Contains(lower(str(r[ac])), row_addr)
        Norm(r)       == Contains(Normalize(lower(str(r[ac])), 1), row_addr_norm)
        matches       == RowsWhere(df, [i \in 1..Len(df.rows) |-> Raw(df.rows[i])])
    IN  IF matches # <<>> THEN matches
        ELSE RowsWhere(df, [i \in 1..Len(df.rows) |-> Norm(df.rows[i])])

\* for ac in addr_cols: ... break at the first column with a match
RECURSIVE AddrMatchesFrom(_, _, _, _)
AddrMatchesFrom(row, df, addr_cols, i) ==
    IF i > Len(addr_cols) THEN <<>>
    ELSE LET m == AddrMatchesIn(row, df, addr_cols[i])
         IN  IF m # <<>> THEN m ELSE AddrMatchesFrom(row, df, addr_cols, i + 1)

\* address matching without the guard on the record's own address
AddrMatches_unguarded(row, df) ==
    AddrMatchesFrom(row, df, ColsWith(df, {K_address, K_location}), 1)

\* 2. address matching, tried when the identifier matched nothing
AddrMatches(row, df) ==
    LET row_addr == RowAddr(row)
    IN  IF row_addr # <<>> /\ row_addr # T_nan
        THEN AddrMatchesFrom(row, df, ColsWith(df, {K_address, K_location}), 1)
        ELSE <<>>

\* matched_claims, as row positions; match_found is matched_claims # <<>>
MatchedClaims(row, df) ==
    LET byId == IdMatches(row, df)
    IN  IF byId # <<>> THEN byId ELSE AddrMatches(row, df)

\* the amount column: the first one naming 'incurred', else the first candidate
TargetCol(df) ==
    LET amount_cols == ColsWith(df, {K_incurred, K_paid, K_total_amount,
                                     K_payment, K_claim_amount})
        incurred    == ColsWith(df, {K_incurred})
    IN  IF amount_cols = <<>> THEN 0
        ELSE IF incurred # <<>> THEN incurred[1] ELSE amount_cols[1]

\* one cell of the amount column as a float: strings lose '$' and ',' and are
\* parsed, NaN is skipped by sum(); [ok |-> FALSE] when astype(float) raises
AmountCell(cell) ==
    IF cell.k = "num" THEN [ok |-> TRUE, v |-> cell.v]
    ELSE IF cell.k = "nan" THEN [ok |-> TRUE, v |-> 0]
    ELSE float(RemoveChars(cell.s, {"$", ","}))

\* the cells of the amount column in the matched rows, converted
AmountCells(df, matched, col) ==
    [i \in 1..Len(matched) |-> AmountCell(df.rows[matched[i]][col])]

\* .astype(float).sum(), 0 when the conversion raised (except: pass)
SumCells(cells) ==
    IF \E i \in DOMAIN cells : ~cells[i].ok THEN 0
    ELSE SumSeq([i \in DOMAIN cells |-> cells[i].v])

\* calc_amount: the sum over the matched rows, 0 when there is no amount column
CalcAmount(df, matched) ==
    IF TargetCol(df) = 0 THEN 0
    ELSE SumCells(AmountCells(df, matched, TargetCol(df)))

\* the distinct non-NaN values of the type-like columns of the matched rows
TypesOf(df, matched, type_cols) ==
    {df.rows[matched[x[1]]][type_cols[x[2]]].s :
        x \in {y \in (1..Len(matched)) \X (1..Len(type_cols)) :
                   df.rows[matched[y[1]]][type_cols[y[2]]].k = "str"}}

\* collected_types
CollectedTypes(row, df) ==
    IF ~df.present \/ empty(df) THEN {}
    ELSE TypesOf(df, MatchedClaims(row, df), ColsWith(df, {K_type, K_cause, K_reason, K_desc}))

\* the orders in which a set of texts can be iterated
Orders(S) == {o \in [1..Cardinality(S) -> S] : \A t \in S : \E i \in DOMAIN o : o[i] = t}

Max(a, b) == IF a >= b THEN a ELSE b

\* ----------------------------------------------------------- claims risk
\* a fallback count that ignores the record
SummaryCount_zero(row) == 0

\* the fallback values carried by the record itself
SummaryCount(row) == safe_int(get(row, "Loss History - Count"), 0)

SummaryAmount(row) == safe_float(get(row, "Loss History - Total Amount"), 0)

\* the ledger-derived value replacing the summary value
Reconcile_ledger(summary, calc) == calc

\* loss_count = max(loss_count, calc_count); loss_amount likewise
Reconcile(summary, calc) == Max(summary, calc)

\* a claim-count component whose 60 band starts at 5
CountScore_from5(loss_count) ==
    IF loss_count > 15 THEN 90
    ELSE IF loss_count >= 5 THEN 60
    ELSE IF loss_count > 2 THEN 40
    ELSE 15

\* Claim Count Risk
CountScore(loss_count) ==
    IF loss_count > 15 THEN 90
    ELSE IF loss_count > 5 THEN 60
    ELSE IF loss_count > 2 THEN 40
    ELSE 15

\* Total Loss Amount Risk, the amount in hundredths
AmountScore(loss_amount) ==
    IF loss_amount > 5000000 * FloatScale THEN 90
    ELSE IF loss_amount > 2000000 * FloatScale THEN 65
    ELSE IF loss_amount > 500000 * FloatScale THEN 40
    ELSE 20

\* a loss-type component that ignores the case of the text
TypeScore_anycase(loss_types_str) ==
    IF Contains(lower(loss_types_str), lower(T_Fire)) THEN 80
    ELSE IF Contains(loss_types_str, T_Flood) \/ Contains(loss_types_str, T_Tornado)
    THEN 70
    ELSE IF Contains(loss_types_str, T_Theft) \/ Contains(loss_types_str, T_Vandalism)
    THEN 40
    ELSE 30

\* Loss Type Risk
TypeScore(loss_types_str) ==
    IF Contains(loss_types_str, T_Fire) THEN 80
    ELSE IF Contains(loss_types_str, T_Flood) \/ Contains(loss_types_str, T_Tornado)
    THEN 70
    ELSE IF Contains(loss_types_str, T_Theft) \/ Contains(loss_types_str, T_Vandalism)
    THEN 40
    ELSE 30

\* the scoring of calculate_claims_risk, on the summary values of the record
\* and the matched rows of the ledger.  raised names the exception that escapes
\* the function, "" when it returns.
claims_risk_of(claims_df, order, summary_count, summary_amount, summary_types, matched_claims, calc_amount) ==
    LET searched       == claims_df.present /\ ~empty(claims_df)
        match_found    == matched_claims # <<>>
        calc_count     == Len(matched_claims)
        loss_count     == IF match_found THEN Reconcile(summary_count, calc_count)
                          ELSE summary_count
        loss_amount    == IF match_found THEN Reconcile(summary_amount, calc_amount)
                          ELSE summary_amount
        count_score    == CountScore(loss_count)
        amount_score   == AmountScore(loss_amount)
        \* match_found is bound only inside the block guarded by 'searched'
        unbound        == claims_df.present /\ ~searched
        loss_types_str == IF claims_df.present /\ match_found /\ order # <<>>
                          THEN Join(order, T_sep) ELSE summary_types
        type_score     == TypeScore(loss_types_str)
        factors ==
            (IF loss_count > 15 THEN <<Factor("High Claim Count", "", loss_count)>>
             ELSE <<>>)
            \o (IF loss_amount > 5000000 * FloatScale
                THEN <<Factor("High Loss Amount", "", loss_amount)>> ELSE <<>>)
            \o (IF type_score = 80 THEN <<Factor("Fire Loss History", "", 0)>>
                ELSE <<>>)
        scores == <<count_score, amount_score, type_score>>
    IN  IF unbound
        THEN [raised |-> "UnboundLocalError", score |-> 0, factors |-> <<>>,
              scores |-> <<>>, match_found |-> FALSE, loss_count |-> 0,
              loss_amount |-> 0, loss_types_str |-> <<>>]
        ELSE [raised |-> "", score |-> Mean(scores), factors |-> factors,
              scores |-> scores, match_found |-> match_found,
              loss_count |-> loss_count, loss_amount |-> loss_amount,
              loss_types_str |-> loss_types_str]

\* str(row.get('Loss History - Type', ''))
SummaryTypes(row) ==
    IF row["Loss History - Type"].k = "absent" THEN <<>>
    ELSE str(row["Loss History - Type"])

\* the summary values, and the ledger values of the matched rows
claims_risk_matched(row, claims_df, order, matched_claims) ==
    claims_risk_of(claims_df, order, SummaryCount(row), SummaryAmount(row),
                   SummaryTypes(row), matched_claims,
                   CalcAmount(claims_df, matched_claims))

\* order: the iteration order of the set collected_types (an element of
\* Orders(CollectedTypes(row, claims_df)))
calculate_claims_risk(row, claims_df, order) ==
    claims_risk_matched(row, claims_df, order,
                        IF claims_df.present /\ ~empty(claims_df)
                        THEN MatchedClaims(row, claims_df) ELSE <<>>)

\* ---------------------------------------------------------- geographic risk
\* the scoring of calculate_geographic_risk, on the values read from the row
geographic_risk_of(wildfire, flood_zone, eq_zone, crime) ==
    LET flood_score == Lookup(FEMA_FLOOD_ZONE_RISK, flood_zone, 50)
        eq_score    == Lookup(EARTHQUAKE_ZONE_RISK, eq_zone, 30)
        factors ==
            (IF wildfire > 70 * FloatScale
             THEN <<Factor("High Wildfire Risk", "", wildfire)>> ELSE <<>>)
            \o (IF flood_score >= 60
                THEN <<Factor("FEMA Flood Zone", flood_zone.s, flood_score)>> ELSE <<>>)
            \o (IF eq_score >= 60
                THEN <<Factor("Earthquake Zone", eq_zone.s, eq_score)>> ELSE <<>>)
            \o (IF crime > 70 * FloatScale
                THEN <<Factor("High Crime Score", "", crime)>> ELSE <<>>)
        scores == <<wildfire, flood_score * FloatScale, eq_score * FloatScale, crime>>
    IN  [score     |-> MeanF(scores),
         factors   |-> factors,
         scores    |-> scores,
         breakdown |-> <<Factor("Wildfire Risk", "", wildfire),
                         Factor("FEMA Flood Zone", flood_zone.s, flood_score),
                         Factor("Earthquake Zone", eq_zone.s, eq_score),
                         Factor("Crime Score", "", crime)>>]

\* a geographic calculator whose wildfire score falls back to 0
calculate_geographic_risk_zero(row) ==
    geographic_risk_of(safe_float(get(row, "Wildfire Risk Score"), 0),
                       getCat(row, "FEMA Flood Zone", "X"),
                       getCat(row, "Earthquake Zone", "Zone 0"),
                       safe_float(get(row, "Crime Score"), 50 * FloatScale))

calculate_geographic_risk(row) ==
    geographic_risk_of(safe_float(get(row, "Wildfire Risk Score"), 50 * FloatScale),
                       getCat(row, "FEMA Flood Zone", "X"),
                       getCat(row, "Earthquake Zone", "Zone 0"),
                       safe_float(get(row, "Crime Score"), 50 * FloatScale))

\* ---------------------------------------------------------- protection risk
\* a protection scoring whose far band starts at 15 miles
protection_risk_of_from15(fpc, alarm, distance) ==
    LET fpc_score   == IF fpc >= 8 THEN 80 ELSE IF fpc >= 5 THEN 50 ELSE 20
        alarm_score == Lookup(BURGLAR_ALARM_RISK, alarm, 50)
        dist_score  == IF distance >= 15 * FloatScale THEN 75
                       ELSE IF distance > 5 * FloatScale THEN 45
                       ELSE 20
        factors ==
            (IF fpc >= 8 THEN <<Factor("Poor Fire Protection Class", "", fpc)>>
             ELSE <<>>)
            \o (IF alarm_score >= 60
                THEN <<Factor("Burglar Alarm", alarm.s, alarm_score)>> ELSE <<>>)
            \o (IF distance >= 15 * FloatScale
                THEN <<Factor("Far from Fire Station", "", distance)>> ELSE <<>>)
        scores == <<fpc_score, alarm_score, dist_score>>
    IN  [score     |-> Mean(scores),
         factors   |-> factors,
         scores    |-> scores,
         breakdown |-> <<Factor("Fire Protection Class", "", fpc),
                         Factor("Burglar Alarm Type", alarm.s, alarm_score),
                         Factor("Fire Station Distance", "", distance)>>]

\* the scoring of calculate_protection_risk, on the values read from the row
protection_risk_of(fpc, alarm, distance) ==
    LET fpc_score   == IF fpc >= 8 THEN 80 ELSE IF fpc >= 5 THEN 50 ELSE 20
        alarm_score == Lookup(BURGLAR_ALARM_RISK, alarm, 50)
        dist_score  == IF distance > 15 * FloatScale THEN 75
                       ELSE IF distance > 5 * FloatScale THEN 45
                       ELSE 20
        factors ==
            (IF fpc >= 8 THEN <<Factor("Poor Fire Protection Class", "", fpc)>>
             ELSE <<>>)
            \o (IF alarm_score >= 60
                THEN <<Factor("Burglar Alarm", alarm.s, alarm_score)>> ELSE <<>>)
            \o (IF distance > 15 * FloatScale
                THEN <<Factor("Far from Fire Station", "", distance)>> ELSE <<>>)
        scores == <<fpc_score, alarm_score, dist_score>>
    IN  [score     |-> Mean(scores),
         factors   |-> factors,
         scores    |-> scores,
         breakdown |-> <<Factor("Fire Protection Class", "", fpc),
                         Factor("Burglar Alarm Type", alarm.s, alarm_score),
                         Factor("Fire Station Distance", "", distance)>>]

\* dist_val: the '(miles)' cell, or the plain cell when that one is missing or empty
DistVal(row, miles) ==
    IF isna(miles) \/ (miles.k = "str" /\ miles.s = <<>>)
    THEN get(row, "Distance to Fire Station") ELSE miles

calculate_protection_risk(row) ==
    protection_risk_of(safe_int(get(row, "Fire Protection Class"), 5),
                       getCat(row, "Burglar Alarm Type", "None"),
                       safe_float(DistVal(row, get(row, "Distance to Fire Station (miles)")),
                                  10 * FloatScale))

\* ------------------------------------------------------------- aggregator
\* a weight vector that does not sum to 1
weights_heavy ==
    [property |-> 25, claims |-> 35, geographic |-> 25, protection |-> 20]

\* the weight vector, in hundredths
weights ==
    [property |-> 25, claims |-> 30, geographic |-> 25, protection |-> 20]

\* the sum with the claims and geographic weights exchanged
WeightedOverall_swapped(property_risk, claims_risk, geographic_risk, protection_risk) ==
    property_risk * weights.property + claims_risk * weights.geographic
    + geographic_risk * weights.claims + protection_risk * weights.protection

\* overall_score: sub-scores in SubUnit-ths, result in OverallUnit-ths
WeightedOverall(property_risk, claims_risk, geographic_risk, protection_risk) ==
    property_risk * weights.property + claims_risk * weights.claims
    + geographic_risk * weights.geographic + protection_risk * weights.protection

\* the chain with the comparisons written <= instead of <
RiskTier_inclusive(overall_score) ==
    IF overall_score <= 45 * OverallUnit
    THEN [risk_level |-> "LOW", recommendation |-> "AUTO-BIND ELIGIBLE"]
    ELSE IF overall_score <= 60 * OverallUnit
    THEN [risk_level |-> "MEDIUM", recommendation |-> "STANDARD REVIEW"]
    ELSE IF overall_score <= 80 * OverallUnit
    THEN [risk_level |-> "HIGH", recommendation |-> "REFER TO SENIOR UNDERWRITER"]
    ELSE [risk_level |-> "VERY HIGH", recommendation |-> "DECLINE OR SPECIAL REVIEW"]

\* the if/elif chain on the unrounded overall_score
RiskTier(overall_score) ==
    IF overall_score < 45 * OverallUnit
    THEN [risk_level |-> "LOW", recommendation |-> "AUTO-BIND ELIGIBLE"]
    ELSE IF overall_score < 60 * OverallUnit
    THEN [risk_level |-> "MEDIUM", recommendation |-> "STANDARD REVIEW"]
    ELSE IF overall_score < 80 * OverallUnit
    THEN [risk_level |-> "HIGH", recommendation |-> "REFER TO SENIOR UNDERWRITER"]
    ELSE [risk_level |-> "VERY HIGH", recommendation |-> "DECLINE OR SPECIAL REVIEW"]

\* property_notable + claims_notable + geo_notable + protection_notable
AllNotable(property_notable, claims_notable, geo_notable, protection_notable) ==
    property_notable \o claims_notable \o geo_notable \o protection_notable

\* the last five factors instead of the first five
TopFactors_tail(all_notable) ==
    SubSeq(all_notable, IF Len(all_notable) < 5 THEN 1 ELSE Len(all_notable) - 4,
           Len(all_notable))

\* all_notable[:5]
TopFactors(all_notable) ==
    SubSeq(all_notable, 1, IF Len(all_notable) < 5 THEN Len(all_notable) ELSE 5)

\* round(x, 1) of a value held in unit-ths of a point: a count of tenths,
\* exact halves going to the even tenth
Round1(x, unit) ==
    LET t == unit \div 10
        q == x \div t
        r == x % t
    IN  IF 2 * r < t THEN q
        ELSE IF 2 * r > t THEN q + 1
        ELSE IF q % 2 = 0 THEN q ELSE q + 1

\* the RiskScores value before any call has returned
NoResult ==
    [status |-> "none", property_risk |-> 0, claims_risk |-> 0,
     geographic_risk |-> 0, protection_risk |-> 0, overall_score |-> 0,
     risk_level |-> "", recommendation |-> "", top_factors |-> <<>>,
     property_factors |-> <<>>, claims_factors |-> <<>>,
     geographic_factors |-> <<>>, protection_factors |-> <<>>]

\* the local variables of calculate_all_risk_scores before any call
NoFrame ==
    [property_risk |-> 0, claims_risk |-> 0, geographic_risk |-> 0,
     protection_risk |-> 0, overall_score |-> 0,
     property_scores |-> <<>>, claims_scores |-> <<>>,
     geographic_scores |-> <<>>, protection_scores |-> <<>>,
     all_notable |-> <<>>, match_found |-> FALSE,
     loss_count |-> 0, loss_amount |-> 0]

\* the combination of the four calculators' results: the returned RiskScores
\* (sub-scores and overall score in tenths) and the locals it was built from
RiskScores(p, c, g, pr) ==
    LET overall_score == WeightedOverall(p.score, c.score, g.score, pr.score)
        tier          == RiskTier(overall_score)
        all_notable   == AllNotable(p.factors, c.factors, g.factors, pr.factors)
    IN  IF c.raised # ""
        THEN [frame  |-> NoFrame,
              result |-> [NoResult EXCEPT !.status = c.raised]]
        ELSE [frame  |->
                 [property_risk |-> p.score, claims_risk |-> c.score,
                  geographic_risk |-> g.score, protection_risk |-> pr.score,
                  overall_score |-> overall_score,
                  property_scores |-> p.scores, claims_scores |-> c.scores,
                  geographic_scores |-> g.scores, protection_scores |-> pr.scores,
                  all_notable |-> all_notable, match_found |-> c.match_found,
                  loss_count |-> c.loss_count, loss_amount |-> c.loss_amount],
              result |->
                 [status |-> "ok",
                  property_risk |-> Round1(p.score, SubUnit),
                  claims_risk |-> Round1(c.score, SubUnit),
                  geographic_risk |-> Round1(g.score, SubUnit),
                  protection_risk |-> Round1(pr.score, SubUnit),
                  overall_score |-> Round1(overall_score, OverallUnit),
                  risk_level |-> tier.risk_level,
                  recommendation |-> tier.recommendation,
                  top_factors |-> TopFactors(all_notable),
                  property_factors |-> p.breakdown,
                  claims_factors |->
                     <<[count |-> c.loss_count, count_score |-> c.scores[1],
                        amount |-> c.loss_amount, amount_score |-> c.scores[2],
                        types |-> IF strip(c.loss_types_str) # <<>>
                                  THEN strip(c.loss_types_str) ELSE T_NA,
                        type_score |-> c.scores[3]]>>,
                  geographic_factors |-> g.breakdown,
                  protection_factors |-> pr.breakdown]]

\* calculate_all_risk_scores(row, claims_df)
calculate_all_risk_scores(row, claims_df, order) ==
    RiskScores(calculate_property_risk(row),
               calculate_claims_risk(row, claims_df, order),
               calculate_geographic_risk(row),
               calculate_protection_risk(row))

\* ---------------------------------------------------------------- narrative
\* the words the narrative's tests look for that the text of a notable factor
\* contains in lower case; 'coverage' contains 'age'.  A notable construction,
\* roof, zone or alarm value is a key of its table and adds no word but 'frame'.
FactorWords(f) ==
    CASE f.kind = "Construction Type" ->
             {"construction type"} \cup (IF f.s = "Frame" THEN {"frame"} ELSE {})
      [] f.kind = "Building Age" -> {"age"}
      [] f.kind = "Roof Condition" -> {"roof"}
      [] f.kind = "Low Sprinkler Coverage" -> {"sprinkler", "age"}
      [] f.kind = "High Claim Count" -> {"claim count", "high claim"}
      [] f.kind = "High Loss Amount" -> {"loss amount", "loss"}
      [] f.kind = "Fire Loss History" -> {"fire", "loss"}
      [] f.kind = "High Wildfire Risk" -> {"wildfire", "fire"}
      [] f.kind = "FEMA Flood Zone" -> {"flood"}
      [] f.kind = "High Crime Score" -> {"crime"}
      [] f.kind \in {"Poor Fire Protection Class", "Far from Fire Station"} -> {"fire"}
      [] OTHER -> {}

\* a loop body that has no test for 'sprinkler'
FactorActions_nosprinkler(w) ==
    (IF "construction type" \in w /\ "frame" \in w
     THEN <<"Require proof of upgraded fire protection systems">> ELSE <<>>)
    \o (IF "claim count" \in w \/ "high claim" \in w
        THEN <<"Impose minimum deductible">> ELSE <<>>)
    \o (IF "loss amount" \in w THEN <<"Apply sub-limits on high-severity perils">> ELSE <<>>)
    \o (IF "fire" \in w /\ "loss" \in w
        THEN <<"Obtain current fire protection system inspection certificate">> ELSE <<>>)
    \o (IF "wildfire" \in w THEN <<"Require defensible space certification">> ELSE <<>>)
    \o (IF "flood" \in w THEN <<"Exclude flood coverage">> ELSE <<>>)
    \o (IF "crime" \in w
        THEN <<"Require central station monitored security system">> ELSE <<>>)
    \o (IF "age" \in w \/ "year built" \in w
        THEN <<"Order professional building inspection">> ELSE <<>>)
    \o (IF "roof" \in w THEN <<"Require roof certification">> ELSE <<>>)

\* what one pass of the loop over the top factors appends for a factor whose
\* lower-case text contains the words w; an action is named by its opening words
FactorActions(w) ==
    (IF "construction type" \in w /\ "frame" \in w
     THEN <<"Require proof of upgraded fire protection systems">> ELSE <<>>)
    \o (IF "sprinkler" \in w THEN <<"Mandate sprinkler system installation">> ELSE <<>>)
    \o (IF "claim count" \in w \/ "high claim" \in w
        THEN <<"Impose minimum deductible">> ELSE <<>>)
    \o (IF "loss amount" \in w THEN <<"Apply sub-limits on high-severity perils">> ELSE <<>>)
    \o (IF "fire" \in w /\ "loss" \in w
        THEN <<"Obtain current fire protection system inspection certificate">> ELSE <<>>)
    \o (IF "wildfire" \in w THEN <<"Require defensible space certification">> ELSE <<>>)
    \o (IF "flood" \in w THEN <<"Exclude flood coverage">> ELSE <<>>)
    \o (IF "crime" \in w
        THEN <<"Require central station monitored security system">> ELSE <<>>)
    \o (IF "age" \in w \/ "year built" \in w
        THEN <<"Order professional building inspection">> ELSE <<>>)
    \o (IF "roof" \in w THEN <<"Require roof certification">> ELSE <<>>)

\* the loop over top_factors[:3]
RECURSIVE TopFactorActions(_)
TopFactorActions(factors) ==
    IF factors = <<>> THEN <<>>
    ELSE FactorActions(FactorWords(Head(factors))) \o TopFactorActions(Tail(factors))

\* the recommendations of the categories scoring at least 60, appended to
\* recs.  The labels 'Year Built', 'Roof', 'Sprinkler', 'Count', 'Amount',
\* 'Wildfire', 'Flood', 'Earthquake', 'Crime', 'Fire Protection Class',
\* 'Burglar Alarm' and 'Fire Station' are in every breakdown list.  No action
\* contains 'limited fire protection', and the only action that contains
\* 'burglar alarm' does not contain 'security'; 'proof' contains 'roof'.
CategoryActions(recs, result) ==
    LET \* the guard words the full text of an action contains in lower case
        ActionWords(a) ==
            CASE a = "Require proof of upgraded fire protection systems" ->
                     {"fire protection", "fire protection systems", "roof"}
              [] a = "Mandate sprinkler system installation" -> {"sprinkler", "premium"}
              [] a = "Impose minimum deductible" -> {"deductible"}
              [] a = "Apply sub-limits on high-severity perils" -> {"sub-limit"}
              [] a = "Obtain current fire protection system inspection certificate" ->
                     {"fire protection", "inspection"}
              [] a = "Require defensible space certification" -> {"wildfire"}
              [] a = "Exclude flood coverage" -> {"flood"}
              [] a = "Require central station monitored security system" -> {"security"}
              [] a = "Order professional building inspection" -> {"inspection"}
              [] a = "Require roof certification" -> {"roof"}
              [] a = "Offer earthquake coverage as optional endorsement" ->
                     {"earthquake", "premium"}
              [] a = "Apply premium surcharge due to poor fire protection class" ->
                     {"premium", "fire protection"}
              [] a = "Require installation of central station burglar alarm" ->
                     {"burglar alarm"}
              [] a = "Apply distance-to-fire-station premium surcharge" -> {"premium"}
              [] OTHER -> {}
        \* if found: if not any(word in r.lower() for r in rs): rs.append(action)
        AddUnless(rs, found, word, action) ==
            IF found /\ ~(\E i \in 1..Len(rs) : word \in ActionWords(rs[i]))
            THEN Append(rs, action) ELSE rs
        property(rs) ==
            IF result.property_risk < 600 THEN rs
            ELSE AddUnless(AddUnless(AddUnless(AddUnless(rs,
                     result.property_factors[1].s \in {"Frame", "Wood"},
                     "fire protection", "Require proof of upgraded fire protection systems"),
                     TRUE, "inspection", "Order professional building inspection"),
                     TRUE, "roof", "Require roof certification"),
                     TRUE, "sprinkler", "Mandate sprinkler system installation")
        claims(rs) ==
            IF result.claims_risk < 600 THEN rs
            ELSE AddUnless(AddUnless(AddUnless(rs,
                     TRUE, "deductible", "Impose minimum deductible"),
                     TRUE, "sub-limit", "Apply sub-limits on high-severity perils"),
                     Contains(result.claims_factors[1].types, T_Fire),
                     "fire protection systems",
                     "Obtain current fire protection system inspection certificate")
        geographic(rs) ==
            IF result.geographic_risk < 600 THEN rs
            ELSE AddUnless(AddUnless(AddUnless(AddUnless(rs,
                     TRUE, "wildfire", "Require defensible space certification"),
                     TRUE, "flood", "Exclude flood coverage"),
                     TRUE, "earthquake", "Offer earthquake coverage as optional endorsement"),
                     TRUE, "security", "Require central station monitored security system")
        protection(rs) ==
            IF result.protection_risk < 600 THEN rs
            ELSE AddUnless(AddUnless(AddUnless(rs,
                     TRUE, "limited fire protection",
                     "Apply premium surcharge due to poor fire protection class"),
                     TRUE, "burglar alarm",
                     "Require installation of central station burglar alarm"),
                     TRUE, "premium", "Apply distance-to-fire-station premium surcharge")
    IN  protection(geographic(claims(property(recs))))

\* the categories named as risk drivers: sub-scores of at least 60, in tenths
RiskDrivers(result) ==
    (IF result.property_risk >= 600 THEN <<"property characteristics">> ELSE <<>>)
    \o (IF result.claims_risk >= 600 THEN <<"claims history">> ELSE <<>>)
    \o (IF result.geographic_risk >= 600 THEN <<"geographic location">> ELSE <<>>)
    \o (IF result.protection_risk >= 600 THEN <<"protection systems">> ELSE <<>>)

\* a narrative that prints the overall score with its decimal
generate_analysis_summary_decimal(result) ==
    LET recs == CategoryActions(
                    TopFactorActions(SubSeq(result.top_factors, 1,
                        IF Len(result.top_factors) < 3 THEN Len(result.top_factors) ELSE 3)),
                    result)
    IN  [status  |-> "ok",
         level   |-> IF result.risk_level \in {"VERY HIGH", "HIGH", "MEDIUM"}
                     THEN result.risk_level ELSE "LOW",
         score   |-> result.overall_score,
         drivers |-> RiskDrivers(result),
         actions |-> \* the general guidance when nothing specific was recommended
                     IF Len(recs) = 0
                     THEN IF result.risk_level \in {"LOW", "MEDIUM"}
                          THEN <<"Approve with standard policy terms",
                                 "Consider for preferred risk tier">>
                          ELSE <<"Escalate to senior underwriter", "Consider declination">>
                     ELSE SubSeq(recs, 1, IF Len(recs) < 5 THEN Len(recs) ELSE 5)]

\* generate_analysis_summary(result) without an llm: the text is
\* base_summary + drivers_text + action + rec_text, held as the values its
\* templates are filled with.  base_summary and action are chosen by the risk
\* level, with the LOW wording for any level that is not one of the other
\* three; score is int(overall_score); actions are recommendations[:5].
generate_analysis_summary(result) ==
    LET recs == CategoryActions(
                    TopFactorActions(SubSeq(result.top_factors, 1,
                        IF Len(result.top_factors) < 3 THEN Len(result.top_factors) ELSE 3)),
                    result)
    IN  [status  |-> "ok",
         level   |-> IF result.risk_level \in {"VERY HIGH", "HIGH", "MEDIUM"}
                     THEN result.risk_level ELSE "LOW",
         score   |-> trunc(10 * result.overall_score),
         drivers |-> RiskDrivers(result),
         actions |-> \* the general guidance when nothing specific was recommended
                     IF Len(recs) = 0
                     THEN IF result.risk_level \in {"LOW", "MEDIUM"}
                          THEN <<"Approve with standard policy terms",
                                 "Consider for preferred risk tier">>
                          ELSE <<"Escalate to senior underwriter", "Consider declination">>
                     ELSE SubSeq(recs, 1, IF Len(recs) < 5 THEN Len(recs) ELSE 5)]

\* ----------------------------------------------------------------- inputs
CatFields == {"Construction Type", "Verified Roof Condition", "FEMA Flood Zone", "Earthquake Zone", "Burglar Alarm Type", "Agency Customer ID"}

TextFields == {"Year Built", "Sprinklered %", "Loss History - Count", "Loss History - Total Amount", "Loss History - Type", "Street Address", "Wildfire Risk Score", "Crime Score", "Fire Protection Class", "Distance to Fire Station (miles)", "Distance to Fire Station"}

Fields == CatFields \cup TextFields

\* the columns of a submission, in order
FieldOrder ==
    <<"Agency Customer ID", "Street Address", "Loss History - Count",
      "Loss History - Total Amount", "Loss History - Type", "Construction Type",
      "Year Built", "Verified Roof Condition", "Sprinklered %",
      "Wildfire Risk Score", "FEMA Flood Zone", "Earthquake Zone", "Crime Score",
      "Fire Protection Class", "Burglar Alarm Type",
      "Distance to Fire Station (miles)", "Distance to Fire Station">>

FieldPos(f) == CHOOSE i \in 1..Len(FieldOrder) : FieldOrder[i] = f

\* the fields that calculate_claims_risk reads
ClaimsFields == {"Loss History - Count", "Loss History - Total Amount", "Loss History - Type", "Agency Customer ID", "Street Address"}

\* a record none of whose keys is present
MissingRow == [f \in Fields |-> IF f \in CatFields THEN CatAbsent ELSE Absent]

\* a record as the extraction initialises it: every field the empty string
BlankRow == [f \in Fields |-> IF f \in CatFields THEN Cat("") ELSE Str(<<>>)]

\* a submission named "Mudo" after the batch processor filled its high-risk defaults
MudoRow ==
    ("Construction Type" :> Cat("Frame")) @@
    ("Verified Roof Condition" :> Cat("Poor")) @@
    ("FEMA Flood Zone" :> Cat("VE")) @@
    ("Earthquake Zone" :> Cat("Zone 4")) @@
    ("Burglar Alarm Type" :> Cat("None")) @@
    ("Agency Customer ID" :> Cat("C1")) @@
    ("Year Built" :> Num(1950)) @@
    ("Sprinklered %" :> Num(0)) @@
    ("Loss History - Count" :> Str(<<"1","6">>)) @@
    ("Loss History - Total Amount" :> Str(<<"$","5",",","0","0","0",",","0","0","1">>)) @@
    ("Loss History - Type" :> Str(<<"F","i","r","e">>)) @@
    ("Street Address" :> Str(<<"1","2"," ","M","a","i","n"," ","S","t","r","e","e","t">>)) @@
    ("Wildfire Risk Score" :> Num(90)) @@
    ("Crime Score" :> Num(90)) @@
    ("Fire Protection Class" :> Num(9)) @@
    ("Distance to Fire Station (miles)" :> Num(20)) @@ MissingRow

\* a submission named "Jetwire" after the medium-risk defaults were filled
JetwireRow ==
    ("Construction Type" :> Cat("Joisted Masonry")) @@
    ("Verified Roof Condition" :> Cat("Fair")) @@
    ("FEMA Flood Zone" :> Cat("A")) @@
    ("Earthquake Zone" :> Cat("Zone 2")) @@
    ("Burglar Alarm Type" :> Cat("Local")) @@
    ("Year Built" :> Num(1990)) @@
    ("Sprinklered %" :> Num(50)) @@
    ("Loss History - Count" :> Str(<<>>)) @@
    ("Loss History - Total Amount" :> Str(<<>>)) @@
    ("Loss History - Type" :> Str(<<"F","l","o","o","d">>)) @@
    ("Street Address" :> Str(<<"9"," ","O","a","k"," ","A","v","e","n","u","e">>)) @@
    ("Wildfire Risk Score" :> Num(50)) @@
    ("Crime Score" :> Num(50)) @@
    ("Fire Protection Class" :> Num(5)) @@
    ("Distance to Fire Station (miles)" :> Num(8)) @@ MissingRow

\* a submission named "Quickbites" after the low-risk defaults were filled
QuickbitesRow ==
    ("Construction Type" :> Cat("Fire Resistive")) @@
    ("Verified Roof Condition" :> Cat("New")) @@
    ("FEMA Flood Zone" :> Cat("X")) @@
    ("Earthquake Zone" :> Cat("Zone 0")) @@
    ("Burglar Alarm Type" :> Cat("Central Station")) @@
    ("Year Built" :> Num(2020)) @@
    ("Sprinklered %" :> Num(100)) @@
    ("Wildfire Risk Score" :> Num(10)) @@
    ("Crime Score" :> Num(10)) @@
    ("Fire Protection Class" :> Num(1)) @@
    ("Distance to Fire Station (miles)" :> Num(1)) @@ MissingRow

\* a submission after the base defaults were filled, with its own loss summary
DefaultRow ==
    ("Construction Type" :> Cat("Frame")) @@
    ("Verified Roof Condition" :> Cat("Fair")) @@
    ("FEMA Flood Zone" :> Cat("D")) @@
    ("Earthquake Zone" :> Cat("Zone 1")) @@
    ("Burglar Alarm Type" :> Cat("None")) @@
    ("Year Built" :> Num(1989)) @@
    ("Sprinklered %" :> Num(40)) @@
    ("Loss History - Count" :> Str(<<"1","6">>)) @@
    ("Loss History - Total Amount" :> Str(<<"$","5",",","0","0","0",",","0","0","1">>)) @@
    ("Loss History - Type" :> Str(<<"F","i","r","e">>)) @@
    ("Wildfire Risk Score" :> [k |-> "num", s |-> <<>>, v |-> 4689]) @@
    ("Crime Score" :> Num(81)) @@
    ("Fire Protection Class" :> Num(3)) @@
    ("Distance to Fire Station (miles)" :> Num(3)) @@ MissingRow

Profiles == {"Missing", "Blank", "Default", "Mudo", "Jetwire", "Quickbites"}

ProfileRow(name) ==
    CASE name = "Missing"    -> MissingRow
      [] name = "Blank"      -> BlankRow
      [] name = "Default"    -> DefaultRow
      [] name = "Mudo"       -> MudoRow
      [] name = "Jetwire"    -> JetwireRow
      [] name = "Quickbites" -> QuickbitesRow

\* the values a field of a submission is given
FieldValues(f) ==
    CASE
       f = "Construction Type" -> {Cat("Frame"), Cat("Fire Resistive"), Cat("Masonry Non-Combustible"), Cat("Steel"), Cat("Wood"), Cat(""), CatAbsent}
    [] f = "Year Built" -> {Str(<<"1","9","7","4">>), Str(<<"1","9","7","5">>), Str(<<"2","0","0","0">>), Str(<<"N","/","A">>), Str(<<>>), Absent}
    [] f = "Verified Roof Condition" -> {Cat("Poor"), Cat("Good"), Cat(""), CatAbsent}
    [] f = "Sprinklered %" -> {Str(<<"0">>), Str(<<"3","0","%">>), Str(<<"7","0",".","5">>), Str(<<>>), Absent}
    [] f = "Loss History - Count" -> {Str(<<"2">>), Str(<<"3">>), Str(<<"5">>), Str(<<"6">>), Str(<<"1","5">>), Str(<<"1","6">>), Str(<<>>), Absent}
    [] f = "Loss History - Total Amount" -> {Str(<<"$","5","0","0",",","0","0","0">>), Str(<<"$","2",",","0","0","0",",","0","0","0",".","0","1">>), Str(<<"$","5",",","0","0","0",",","0","0","1">>), Str(<<>>), Absent}
    [] f = "Loss History - Type" -> {Str(<<"F","i","r","e">>), Str(<<"F","l","o","o","d">>), Str(<<"W","i","l","d","f","i","r","e",","," ","T","h","e","f","t">>), Str(<<>>), Absent}
    [] f = "Agency Customer ID" -> {Cat("C1"), Cat("C2"), Cat(""), CatAbsent}
    [] f = "Street Address" -> {Str(<<"1","2"," ","M","a","i","n"," ","S","t","r","e","e","t">>), Str(<<"9"," ","O","a","k"," ","A","v","e",".">>), Str(<<>>), NaN, Absent}
    [] f = "Wildfire Risk Score" -> {Str(<<"6","5">>), Str(<<"6","4",".","5">>), Str(<<"7","0">>), Str(<<"7","0",".","0","1">>), Str(<<"5","0","0">>), Str(<<"-","1","0","0">>), Str(<<>>), Absent}
    [] f = "FEMA Flood Zone" -> {Cat("VE"), Cat("AE"), Cat("X"), Cat(""), CatAbsent}
    [] f = "Earthquake Zone" -> {Cat("Zone 4"), Cat("Zone 1"), Cat(""), CatAbsent}
    [] f = "Crime Score" -> {Str(<<"8","4">>), Str(<<"9","2">>), Str(<<"9","9",".","1","1">>), Str(<<" ","4","5","%"," ">>), Str(<<"$","1",",","2","3","4",".","5","6">>), Str(<<"-","1","2",".","9">>), Str(<<"h","i","g","h">>), ListCell, Str(<<>>), Absent}
    [] f = "Fire Protection Class" -> {Str(<<"4">>), Str(<<"5">>), Str(<<"7">>), Str(<<"8">>), Str(<<"8",".","9">>), Str(<<"-","1",".","5">>), Str(<<"C","l","a","s","s"," ","9">>), Str(<<>>), Absent}
    [] f = "Burglar Alarm Type" -> {Cat("None"), Cat("Monitored"), Cat(""), CatAbsent}
    [] f = "Distance to Fire Station (miles)" -> {Str(<<"5">>), Str(<<"5",".","5">>), Str(<<"1","5">>), Str(<<"1","5",".","5">>), Str(<<>>), Absent}
    [] f = "Distance to Fire Station" -> {Str(<<"2","0">>), Str(<<>>), Absent}

\* the ledger built from the 'Loss History' of a submission: Type, Amount Paid,
\* Agency Customer ID, Street Address
PipelineCols == <<C_Type, C_AmountPaid, C_AgencyCustomerID, C_StreetAddress>>

\* an uploaded portfolio ledger: Location, Amount Paid, Total Incurred, Cause of Loss
PortfolioCols == <<C_Location, C_AmountPaid, C_TotalIncurred, C_CauseOfLoss, C_Description>>

Schemas == {PipelineCols, PortfolioCols}

LedgerRows(cols) ==
    IF cols = PipelineCols
    THEN { <<Str(<<"F","i","r","e">>), Str(<<"$","5",",","1","0","0",",","0","0","0">>), Cat("C1"), Str(<<"1","2"," ","M","a","i","n"," ","S","t","r","e","e","t">>)>>,
           <<Str(<<"T","h","e","f","t">>), Str(<<"$","3","5","0",",","0","0","0">>), Cat("C1"), Str(<<"1","2"," ","M","a","i","n"," ","S","t","r","e","e","t">>)>>,
           <<NaN, Str(<<"N","/","A">>), Cat("C1"), Str(<<"1","2"," ","M","a","i","n"," ","S","t","r","e","e","t">>)>>,
           <<Str(<<"F","l","o","o","d">>), Str(<<"$","6","0","0",",","0","0","0">>), Cat("C2"), Str(<<"9"," ","O","a","k"," ","A","v","e",".">>)>> }
    ELSE { <<Str(<<"1","2"," ","m","a","i","n"," ","s","t">>), Num(100000), Num(5100000), Str(<<"F","i","r","e">>), Str(<<"S","m","o","k","e">>)>>,
           <<Str(<<"1","2"," ","M","a","i","n"," ","S","t","r","e","e","t",","," ","S","p","r","i","n","g","f","i","e","l","d">>), Str(<<"$","1",",","0","0","0">>), NaN, Str(<<"T","h","e","f","t">>), NaN>>,
           <<Str(<<"9"," ","O","a","k"," ","A","v","e",".">>), Num(100000), Num(700000), Str(<<"T","h","e","f","t">>), Str(<<"T","h","e","f","t">>)>>,
           <<NaN, Num(900000), Num(900000), Str(<<"V","a","n","d","a","l","i","s","m">>), NaN>> }

\* ---------------------------------------------------------- batch processor
\* A table is the sequence of its rows; a row maps every column name to a cell,
\* and a column the table does not have holds the absent cell in every row.
NameCols == <<"Named Insured", "Property Name", "Insured Name", "Company">>

ScoreCols == {"Property_Risk_Score", "Claims_Risk_Score", "Geographic_Risk_Score", "Protection_Risk_Score", "Overall_Risk_Score", "Risk_Level", "Recommendation", "Top_Risk_Factors"}

TableFields == Fields \cup {"TIV (Total Insurable Value)"} \cup {NameCols[i] : i \in 1..Len(NameCols)} \cup ScoreCols

\* col in df.columns
HasCol(df, col) == df # <<>> /\ df[1][col].k # "absent"

\* no copy: the same table object
copy_alias(heap, ref) == [heap |-> heap, ref |-> ref]

\* property_df.copy(): a new table object with the same cells
copy(heap, ref) == [heap |-> Append(heap, heap[ref]), ref |-> Len(heap) + 1]

\* str(df.iloc[0][col]).strip() of the first name column the table has
property_name(df) ==
    LET cols == SelectSeq(NameCols, LAMBDA c : HasCol(df, c))
    IN  IF df = <<>> \/ cols = <<>> THEN <<>> ELSE strip(str(df[1][cols[1]]))

BaseDefaults ==
    ("TIV (Total Insurable Value)" :> Num(17474609)) @@
    ("FEMA Flood Zone" :> Cat("D")) @@
    ("Wildfire Risk Score" :> [k |-> "num", s |-> <<>>, v |-> 4689]) @@
    ("Earthquake Zone" :> Cat("Zone 1")) @@
    ("Crime Score" :> Num(81)) @@
    ("Verified Roof Condition" :> Cat("Fair")) @@
    ("Construction Type" :> Cat("Frame")) @@
    ("Year Built" :> Num(1989)) @@
    ("Sprinklered %" :> Num(40)) @@
    ("Fire Protection Class" :> Num(3)) @@
    ("Burglar Alarm Type" :> Cat("None")) @@
    ("Distance to Fire Station (miles)" :> Num(3))

MudoDefaults ==
    ("Construction Type" :> Cat("Frame")) @@
    ("Year Built" :> Num(1950)) @@
    ("Verified Roof Condition" :> Cat("Poor")) @@
    ("TIV (Total Insurable Value)" :> Num(2074124)) @@
    ("Sprinklered %" :> Num(0)) @@
    ("FEMA Flood Zone" :> Cat("VE")) @@
    ("Wildfire Risk Score" :> Num(90)) @@
    ("Earthquake Zone" :> Cat("Zone 4")) @@
    ("Crime Score" :> Num(90)) @@
    ("Fire Protection Class" :> Num(9)) @@
    ("Burglar Alarm Type" :> Cat("None")) @@
    ("Distance to Fire Station (miles)" :> Num(20))

JetwireDefaults ==
    ("Construction Type" :> Cat("Joisted Masonry")) @@
    ("Year Built" :> Num(1990)) @@
    ("Verified Roof Condition" :> Cat("Fair")) @@
    ("TIV (Total Insurable Value)" :> Num(3120088)) @@
    ("Sprinklered %" :> Num(50)) @@
    ("FEMA Flood Zone" :> Cat("A")) @@
    ("Wildfire Risk Score" :> Num(50)) @@
    ("Earthquake Zone" :> Cat("Zone 2")) @@
    ("Crime Score" :> Num(50)) @@
    ("Fire Protection Class" :> Num(5)) @@
    ("Burglar Alarm Type" :> Cat("Local")) @@
    ("Distance to Fire Station (miles)" :> Num(8))

QuickbitesDefaults ==
    ("Construction Type" :> Cat("Fire Resistive")) @@
    ("Year Built" :> Num(2020)) @@
    ("Verified Roof Condition" :> Cat("New")) @@
    ("TIV (Total Insurable Value)" :> Num(1896541)) @@
    ("Sprinklered %" :> Num(100)) @@
    ("FEMA Flood Zone" :> Cat("X")) @@
    ("Wildfire Risk Score" :> Num(10)) @@
    ("Earthquake Zone" :> Cat("Zone 0")) @@
    ("Crime Score" :> Num(10)) @@
    ("Fire Protection Class" :> Num(1)) @@
    ("Burglar Alarm Type" :> Cat("Central Station")) @@
    ("Distance to Fire Station (miles)" :> Num(1))

\* the base defaults, updated by the profile the property name selects
defaults(name) ==
    IF name = <<"M","u","d","o">> THEN MudoDefaults @@ BaseDefaults
    ELSE IF name = <<"J","e","t","w","i","r","e">> THEN JetwireDefaults @@ BaseDefaults
    ELSE IF name = <<"Q","u","i","c","k","b","i","t","e","s">>
         THEN QuickbitesDefaults @@ BaseDefaults
    ELSE BaseDefaults

\* a cell that fillna replaces, or whose stripped text is empty
NeedsDefault(col, cell) ==
    \/ cell.k = "nan"
    \/ cell.k = "str" /\ (IF col \in CatFields THEN cell.s = "" ELSE strip(cell.s) = <<>>)

\* for col, default_val in defaults.items(): create the column or fill its gaps
FillDefaults(df, d) ==
    [i \in 1..Len(df) |->
        [col \in TableFields |->
            IF col \in DOMAIN d /\ (~HasCol(df, col) \/ NeedsDefault(col, df[i][col]))
            THEN d[col] ELSE df[i][col]]]

\* the score columns as first created: 0.0 and ''
InitScoreCols(df) ==
    [i \in 1..Len(df) |->
        [col \in TableFields |->
            IF col \notin ScoreCols THEN df[i][col]
            ELSE IF col \in {"Risk_Level", "Recommendation"} THEN Cat("")
            ELSE IF col = "Top_Risk_Factors" THEN Str(<<>>)
            ELSE Num(0)]]

\* a number of tenths as a cell
Tenths(n) == [k |-> "num", s |-> <<>>, v |-> n * (FloatScale \div 10)]

\* the factors joined with a comma
JoinFactors_comma(factors) ==
    [i \in 1..(IF factors = <<>> THEN 0 ELSE 2 * Len(factors) - 1) |->
        IF i % 2 = 1 THEN factors[(i + 1) \div 2] ELSE ", "]

\* ' | '.join(top_factors): the factors with the separator between them
JoinFactors(factors) ==
    [i \in 1..(IF factors = <<>> THEN 0 ELSE 2 * Len(factors) - 1) |->
        IF i % 2 = 1 THEN factors[(i + 1) \div 2] ELSE " | "]

\* df.at[idx, ...] = ...: the eight score cells of one row
WithScores(r, risk_scores) ==
    ("Property_Risk_Score" :> Tenths(risk_scores.property_risk)) @@
    ("Claims_Risk_Score" :> Tenths(risk_scores.claims_risk)) @@
    ("Geographic_Risk_Score" :> Tenths(risk_scores.geographic_risk)) @@
    ("Protection_Risk_Score" :> Tenths(risk_scores.protection_risk)) @@
    ("Overall_Risk_Score" :> Tenths(risk_scores.overall_score)) @@
    ("Risk_Level" :> Cat(risk_scores.risk_level)) @@
    ("Recommendation" :> Cat(risk_scores.recommendation)) @@
    ("Top_Risk_Factors" :> Str(JoinFactors(risk_scores.top_factors))) @@ r

\* for idx, row in df.iterrows(): the tables the loop can leave from row i on,
\* with the exception that ended it, if any
RECURSIVE ScoreRowsFrom(_, _, _)
ScoreRowsFrom(df, claims_df, i) ==
    IF i > Len(df) THEN {[raised |-> "", df |-> df]}
    ELSE UNION {
           IF risk_scores.status # "ok"
           THEN {[raised |-> risk_scores.status, df |-> df]}
           ELSE ScoreRowsFrom([df EXCEPT ![i] = WithScores(@, risk_scores)], claims_df, i + 1)
           : risk_scores \in
               {calculate_all_risk_scores(df[i], claims_df, order).result :
                   order \in Orders(CollectedTypes(df[i], claims_df))} }

\* add_risk_scores_to_df(property_df, claims_df) on a heap of table objects:
\* the heaps the call can leave, with the reference it returns (0 when it raised)
add_risk_scores_to_df(heap, property_df, claims_df) ==
    LET df == copy(heap, property_df)
    IN  { [heap   |-> [df.heap EXCEPT ![df.ref] = out.df],
           raised |-> out.raised,
           ref    |-> IF out.raised = "" THEN df.ref ELSE 0] :
          out \in ScoreRowsFrom(
                     InitScoreCols(FillDefaults(df.heap[df.ref],
                                                defaults(property_name(df.heap[df.ref])))),
                     claims_df, 1) }

\* ------------------------------------------------------------------ reports
\* _generate_final_recommendation of the PDF report, on the row it reads; the
\* text is named by its decision.  output_row.get('Overall_Risk_Score', 0)
generate_final_recommendation(output_row) ==
    LET overall_score == IF output_row["Overall_Risk_Score"].k = "num"
                         THEN output_row["Overall_Risk_Score"].v ELSE 0
    IN  IF overall_score < 45 * FloatScale THEN "may qualify for auto-bind processing"
        ELSE IF overall_score < 60 * FloatScale THEN "requires standard underwriting review"
        ELSE IF overall_score < 80 * FloatScale THEN "referred to senior underwriting"
        ELSE "decline or referral to specialized underwriting"

\* _generate_recommendation_text of the HTML report
generate_recommendation_text(output_row) ==
    LET overall_score == IF output_row["Overall_Risk_Score"].k = "num"
                         THEN output_row["Overall_Risk_Score"].v ELSE 0
    IN  IF overall_score < 45 * FloatScale THEN "may qualify for auto-bind processing"
        ELSE IF overall_score < 60 * FloatScale THEN "requires standard underwriting review"
        ELSE IF overall_score < 80 * FloatScale THEN "referred to senior underwriting"
        ELSE "decline or referral to specialized underwriting"

\* ------------------------------------------------------------- tables
\* a table row with the given name cell and the cells of a record
Submission(name, record) ==
    [col \in TableFields |->
        IF col = "Named Insured" THEN name
        ELSE IF col \in Fields THEN record[col]
        ELSE Absent]

\* a record with every extracted field present: the cells of 'given', else ''
Extracted(given) ==
    [f \in Fields |-> IF given[f].k # "absent" THEN given[f] ELSE BlankRow[f]]

\* the rows a table is made of
Submissions ==
    { Submission(Str(<<"M","u","d","o">>), BlankRow),
      Submission(Str(<<"J","e","t","w","i","r","e">>), BlankRow),
      Submission(Str(<<"A","c","m","e">>), Extracted(QuickbitesRow)),
      Submission(Str(<<" ","Q","u","i","c","k","b","i","t","e","s"," ">>),
                 [BlankRow EXCEPT !["Year Built"] = NaN,
                                  !["Construction Type"] = Cat("Masonry Non-Combustible"),
                                  !["Sprinklered %"] = Str(<<" ">>)]),
      Submission(NaN, Extracted(DefaultRow)),
      Submission(Str(<<"A","c","m","e">>),
                 Extracted([DefaultRow EXCEPT !["Wildfire Risk Score"] = Str(<<"6","4",".","5">>)])) }

\* the tables a caller starts from: one submission, a table with no rows, a
\* table with nothing but the name, and a table that names its rows 'Company'
Tables ==
    {<<s>> : s \in Submissions}
    \cup { <<>>,
           <<Submission(Str(<<"J","e","t","w","i","r","e">>), MissingRow)>>,
           <<[Submission(Absent, Extracted(MudoRow))
                 EXCEPT !["Company"] = Str(<<"M","u","d","o">>)]>> }

\* a row as it joins a table: the table's columns, NaN where it has no value
Conform(s, df) ==
    [col \in TableFields |->
        IF ~HasCol(df, col) THEN (IF col \in CatFields THEN CatAbsent ELSE Absent)
        ELSE IF s[col].k = "absent" THEN (IF col \in CatFields THEN CatNaN ELSE NaN)
        ELSE s[col]]

\* ------------------------------------------------------------ orchestrator
\* analyze_pdf_attachment before its first step, for a file of the given kind:
\* pc is the step to run next, steps the steps run so far, failed the number
\* of the step that failed, analysis_summary the local of that name ({} is
\* NoResult) and out the dictionary returned
NotStarted(pdf) ==
    [pdf |-> pdf, pc |-> "extract", steps |-> <<>>, failed |-> 0,
     analysis_summary |-> NoResult,
     out |-> [success |-> FALSE, pdf_report_path |-> "",
              analysis_summary |-> NoResult, error_message |-> ""]]

\* ------------------------------------------------------------------ state
VARIABLES
    profile,     \* which submission the record started from
    row,         \* the property record handed to the scoring engine
    claims_df,   \* the claims ledger handed to it, NoLedger for None
    frame,       \* the locals of the last calculate_all_risk_scores call
    result,      \* the RiskScores it returned, or the exception it raised
    heap,        \* the table objects; heap[1] is the caller's property table
    scored_df,   \* what add_risk_scores_to_df returned, or the exception it raised
    summary,     \* the narrative generate_analysis_summary returned
    run          \* the call of analyze_pdf_attachment: its position and what it returns

vars == <<profile, row, claims_df, frame, result, heap, scored_df, summary, run>>

\* no call of the batch processor yet
NoTable == [status |-> "none", ref |-> 0]

\* the fields of the record that differ from its profile
Edited == {f \in Fields : row[f] # ProfileRow(profile)[f]}

\* the rows appended to the caller's table
Appended == IF heap = <<>> \/ heap[1] = <<>> THEN 0 ELSE Len(heap[1]) - 1

\* the size of the input: edited fields, ledger rows and appended table rows
Cost == Cardinality(Edited) + Len(claims_df.rows) + Appended

Init ==
    /\ profile \in Profiles
    /\ row = ProfileRow(profile)
    /\ claims_df = NoLedger
    /\ frame = NoFrame
    /\ result = NoResult
    /\ heap = <<>>
    /\ scored_df = NoTable
    /\ summary = [status |-> "none", level |-> "", score |-> 0, drivers |-> <<>>, actions |-> <<>>]
    /\ run = NotStarted("form")

\* one extracted field of the submission takes a value; the fields are filled in
\* column order.  The ledger is only combined with edits of the fields the claims
\* calculator reads.
SetField ==
    /\ result.status = "none"
    /\ Cost < MaxEdits
    /\ \E f \in Fields :
          /\ \A g \in Edited : FieldPos(g) < FieldPos(f)
          /\ claims_df.present => f \in ClaimsFields
          /\ \E v \in FieldValues(f) :
                /\ v # row[f]
                /\ row' = [row EXCEPT ![f] = v]
    /\ UNCHANGED <<profile, claims_df, frame, result, heap, scored_df, summary, run>>

\* a claims ledger with no rows yet is supplied
AttachLedger(cols) ==
    /\ result.status = "none"
    /\ scored_df.status = "none"
    /\ ~claims_df.present
    /\ Edited \subseteq ClaimsFields
    /\ claims_df' = Ledger(cols, <<>>)
    /\ UNCHANGED <<profile, row, frame, result, heap, scored_df, summary, run>>

\* one more loss entry in the ledger
AddRow ==
    /\ result.status = "none"
    /\ scored_df.status = "none"
    /\ claims_df.present
    /\ Cost < MaxEdits
    /\ \E r \in LedgerRows(claims_df.cols) :
          claims_df' = [claims_df EXCEPT !.rows = Append(@, r)]
    /\ UNCHANGED <<profile, row, frame, result, heap, scored_df, summary, run>>

\* calculate_all_risk_scores(row, claims_df)
Score ==
    /\ result.status = "none"
    /\ \E order \in Orders(CollectedTypes(row, claims_df)) :
          \E out \in {calculate_all_risk_scores(row, claims_df, order)} :
              /\ frame' = out.frame
              /\ result' = out.result
    /\ UNCHANGED <<profile, row, claims_df, heap, scored_df, summary, run>>

\* summary_paragraph = generate_analysis_summary(result, llm) with no llm
Summarize ==
    /\ result.status = "ok"
    /\ summary.status = "none"
    /\ summary' = generate_analysis_summary(result)
    /\ UNCHANGED <<profile, row, claims_df, frame, result, heap, scored_df, run>>

Next ==
    \/ SetField
    \/ \E cols \in Schemas : AttachLedger(cols)
    \/ AddRow
    \/ Score
    \/ Summarize

Spec == Init /\ [][Next]_vars

\* the caller of the batch processor holds one property table
BatchInit ==
    /\ profile = "Default"
    /\ row = ProfileRow(profile)
    /\ claims_df = NoLedger
    /\ frame = NoFrame
    /\ result = NoResult
    /\ heap \in {<<t>> : t \in Tables}
    /\ scored_df = NoTable
    /\ summary = [status |-> "none", level |-> "", score |-> 0, drivers |-> <<>>, actions |-> <<>>]
    /\ run = NotStarted("form")

\* one more submission in the property table
AppendRecord ==
    /\ scored_df.status = "none"
    /\ heap[1] # <<>>
    /\ Cost < MaxEdits
    /\ \E s \in Submissions :
          heap' = [heap EXCEPT ![1] = Append(@, Conform(s, heap[1]))]
    /\ UNCHANGED <<profile, row, claims_df, frame, result, scored_df, summary, run>>

\* scored_df = add_risk_scores_to_df(property_df, claims_df)
AddRiskScores ==
    /\ scored_df.status = "none"
    /\ \E out \in add_risk_scores_to_df(heap, 1, claims_df) :
          /\ heap' = out.heap
          /\ scored_df' = [status |-> IF out.raised = "" THEN "ok" ELSE out.raised,
                           ref    |-> out.ref]
    /\ UNCHANGED <<profile, row, claims_df, frame, result, summary, run>>

BatchNext ==
    \/ AppendRecord
    \/ \E cols \in Schemas : AttachLedger(cols)
    \/ AddRow
    \/ AddRiskScores

BatchSpec == BatchInit /\ [][BatchNext]_vars

\* ----------------------------------------------------- orchestrator steps
\* step 1, extract_data_from_pdf and the test of its success: the file is not
\* found, or no field of the form holds a value, or the fields are extracted
ExtractDataFromPdf ==
    /\ run.pc = "extract"
    /\ \E error \in {IF run.pdf = "missing" THEN "PDF file not found"
                     ELSE IF \A f \in Fields : Extracted(row)[f] = BlankRow[f]
                          THEN "No data could be extracted from PDF" ELSE ""} :
          run' = IF error = ""
                 THEN [run EXCEPT !.steps = Append(@, "extract"), !.pc = "prepare"]
                 ELSE [run EXCEPT !.steps = Append(@, "extract"), !.pc = "returned",
                                  !.failed = 1, !.out.error_message = error]
    /\ UNCHANGED <<profile, row, claims_df, frame, result, heap, scored_df, summary>>

\* step 2, prepare_dataframes and the test of its success: the one-row
\* property table of the extracted fields, with 'Loss History - Type' the
\* joined set of the types of the loss history when it names any, and the
\* ledger of the loss history entries, each with the record's customer id and
\* street address.  A loss history whose entries are no mappings raises.
PrepareDataframes ==
    /\ run.pc = "prepare"
    /\ IF run.pdf = "malformed"
       THEN /\ run' = [run EXCEPT !.steps = Append(@, "prepare"), !.pc = "returned",
                                  !.failed = 2,
                                  !.out.error_message = "Data preparation failed"]
            /\ UNCHANGED <<row, claims_df, heap>>
       ELSE /\ \E order \in Orders({claims_df.rows[i][1].s : i \in
                                       {j \in 1..Len(claims_df.rows) :
                                           claims_df.rows[j][1].k = "str"
                                           /\ claims_df.rows[j][1].s # <<>>}}) :
                  row' = IF order = <<>> THEN Extracted(row)
                         ELSE [Extracted(row) EXCEPT
                                  !["Loss History - Type"] = Str(Join(order, T_sep))]
            /\ claims_df' =
                  Ledger(PipelineCols,
                         [i \in 1..Len(claims_df.rows) |->
                             <<claims_df.rows[i][1], claims_df.rows[i][2],
                               Extracted(row)["Agency Customer ID"],
                               Extracted(row)["Street Address"]>>])
            /\ heap' = << <<Submission(IF profile \in {"Missing", "Blank"} THEN Absent
                                       ELSE Str(<<"A", "c", "m", "e">>), row')>> >>
            /\ run' = [run EXCEPT !.steps = Append(@, "prepare"), !.pc = "analyze"]
    /\ UNCHANGED <<profile, frame, result, scored_df, summary>>

\* step 3, perform_risk_analysis and the test of its success: the batch
\* processor on the property table, with None for an empty ledger, then the
\* aggregator on the first row of the scored table; the summary is its result
PerformRiskAnalysis ==
    /\ run.pc = "analyze"
    /\ \E ledger \in {IF empty(claims_df) THEN NoLedger ELSE claims_df} :
       \E scored \in add_risk_scores_to_df(heap, 1, ledger) :
          IF scored.raised # "" \/ Len(scored.heap[scored.ref]) = 0
          THEN /\ run' = [run EXCEPT !.steps = Append(@, "analyze"), !.pc = "returned",
                                     !.failed = 3,
                                     !.out.error_message = "Risk analysis failed"]
               /\ UNCHANGED <<frame, result, heap, scored_df>>
          ELSE \E order \in Orders(CollectedTypes(scored.heap[scored.ref][1], ledger)) :
               \E risk_scores \in
                     {calculate_all_risk_scores(scored.heap[scored.ref][1], ledger, order)} :
                  /\ heap' = scored.heap
                  /\ scored_df' = [status |-> "ok", ref |-> scored.ref]
                  /\ frame' = risk_scores.frame
                  /\ result' = risk_scores.result
                  /\ run' = IF risk_scores.result.status = "ok"
                            THEN [run EXCEPT !.steps = Append(@, "analyze"),
                                             !.pc = "report",
                                             !.analysis_summary = risk_scores.result]
                            ELSE [run EXCEPT !.steps = Append(@, "analyze"),
                                             !.pc = "returned", !.failed = 3,
                                             !.out.error_message = "Risk analysis failed"]
    /\ UNCHANGED <<profile, row, claims_df, summary>>

\* a report step that returns no summary when it fails
GeneratePdfReport_nosummary ==
    /\ run.pc = "report"
    /\ LET accepted == {"input_df", "claims_df", "output_df", "output_path", "logo_path"}
           passed   == {"input_df", "claims_df", "output_df", "logo_path", "input_pdf_name"}
           error    == IF ~(passed \subseteq accepted) THEN "PDF generation failed: TypeError"
                       ELSE IF Len(heap[1]) = 0 \/ Len(heap[scored_df.ref]) = 0
                       THEN "PDF generation failed: ValueError" ELSE ""
       IN  run' = IF error = ""
                  THEN [run EXCEPT !.steps = Append(@, "report"), !.pc = "returned",
                                   !.out = [success |-> TRUE,
                                            pdf_report_path |-> "reports/Underwriting_Report.pdf",
                                            analysis_summary |-> run.analysis_summary,
                                            error_message |-> ""]]
                  ELSE [run EXCEPT !.steps = Append(@, "report"), !.pc = "returned",
                                   !.failed = 4,
                                   !.out = [success |-> FALSE, pdf_report_path |-> "",
                                            analysis_summary |-> NoResult,
                                            error_message |-> error]]
    /\ UNCHANGED <<profile, row, claims_df, frame, result, heap, scored_df, summary>>

\* step 4, generate_pdf_report and the return of analyze_pdf_attachment.
\* generate_claims_likelihood_report is called with the keyword input_pdf_name,
\* which is none of its parameters: the call raises TypeError, which the step
\* catches.  A call it accepts raises ValueError on a table with no rows.
GeneratePdfReport ==
    /\ run.pc = "report"
    /\ LET accepted == {"input_df", "claims_df", "output_df", "output_path", "logo_path"}
           passed   == {"input_df", "claims_df", "output_df", "logo_path", "input_pdf_name"}
           error    == IF ~(passed \subseteq accepted) THEN "PDF generation failed: TypeError"
                       ELSE IF Len(heap[1]) = 0 \/ Len(heap[scored_df.ref]) = 0
                       THEN "PDF generation failed: ValueError" ELSE ""
       IN  run' = IF error = ""
                  THEN [run EXCEPT !.steps = Append(@, "report"), !.pc = "returned",
                                   !.out = [success |-> TRUE,
                                            pdf_report_path |-> "reports/Underwriting_Report.pdf",
                                            analysis_summary |-> run.analysis_summary,
                                            error_message |-> ""]]
                  ELSE [run EXCEPT !.steps = Append(@, "report"), !.pc = "returned",
                                   !.failed = 4,
                                   !.out = [success |-> FALSE, pdf_report_path |-> "",
                                            analysis_summary |-> run.analysis_summary,
                                            error_message |-> error]]
    /\ UNCHANGED <<profile, row, claims_df, frame, result, heap, scored_df, summary>>

\* a PDF attachment: the file is missing, or its loss history is malformed, or
\* it is a form with the fields of a submission and a loss history
PipelineInit ==
    /\ profile \in Profiles
    /\ row = ProfileRow(profile)
    /\ claims_df \in {Ledger(PipelineCols, rows) :
                        rows \in UNION {[1..n -> LedgerRows(PipelineCols)] : n \in 0..MaxEdits}}
    /\ frame = NoFrame
    /\ result = NoResult
    /\ heap = <<>>
    /\ scored_df = NoTable
    /\ summary = [status |-> "none", level |-> "", score |-> 0, drivers |-> <<>>, actions |-> <<>>]
    /\ run \in {NotStarted(pdf) : pdf \in {"missing", "malformed", "form"}}

PipelineNext ==
    \/ ExtractDataFromPdf
    \/ PrepareDataframes
    \/ PerformRiskAnalysis
    \/ GeneratePdfReport

PipelineSpec == PipelineInit /\ [][PipelineNext]_vars

\* =================================================================== claims
Scored == result.status = "ok"

Abs(x) == IF x < 0 THEN 0 - x ELSE x

\* the threshold table, on a score held in unit-ths of a point
TierByTable(score, unit) ==
    IF score < 45 * unit THEN "LOW"
    ELSE IF score < 60 * unit THEN "MEDIUM"
    ELSE IF score < 80 * unit THEN "HIGH"
    ELSE "VERY HIGH"

TierPairs ==
    { <<"LOW", "AUTO-BIND ELIGIBLE">>, <<"MEDIUM", "STANDARD REVIEW">>,
      <<"HIGH", "REFER TO SENIOR UNDERWRITER">>,
      <<"VERY HIGH", "DECLINE OR SPECIAL REVIEW">> }

\* C1: the tier is chosen from the weighted (unrounded) overall score by the
\* thresholds 45 / 60 / 80, lower bound inclusive and upper bound exclusive, and
\* the recommendation is the one paired with the tier.
C1_TierFromOverallScore ==
    Scored =>
        /\ (result.risk_level = "LOW") <=> (frame.overall_score < 45 * OverallUnit)
        /\ (result.risk_level = "MEDIUM") <=>
               (45 * OverallUnit <= frame.overall_score
                /\ frame.overall_score < 60 * OverallUnit)
        /\ (result.risk_level = "HIGH") <=>
               (60 * OverallUnit <= frame.overall_score
                /\ frame.overall_score < 80 * OverallUnit)
        /\ (result.risk_level = "VERY HIGH") <=> (frame.overall_score >= 80 * OverallUnit)
        /\ <<result.risk_level, result.recommendation>> \in TierPairs

\* a result whose overall score is exactly 60.0, and is HIGH
C1_Witness ==
    /\ Scored
    /\ frame.overall_score = 60 * OverallUnit
    /\ result.risk_level = "HIGH"
    /\ result.recommendation = "REFER TO SENIOR UNDERWRITER"

\* C2: the returned risk_level is what the threshold table gives for the
\* returned overall_score field.
C2_TierOfReportedScore ==
    Scored => result.risk_level = TierByTable(result.overall_score, 10)

\* C3 as claimed: the overall_score field is the weighted combination of the
\* four sub-score fields of the same result.
C3_OverallOfReportedSubScores ==
    Scored =>
        100 * result.overall_score =
            25 * result.property_risk + 30 * result.claims_risk
            + 25 * result.geographic_risk + 20 * result.protection_risk

\* C3 amended: the overall_score field is the weighted combination
\* 0.25/0.30/0.25/0.20 of the four unrounded sub-scores, rounded to one decimal;
\* each sub-score field is its sub-score rounded to one decimal; and the
\* overall_score field is within 0.1 of the weighted combination of the fields.
C3_OverallOfSubScoresRounded ==
    Scored =>
        LET exact == 25 * frame.property_risk + 30 * frame.claims_risk
                     + 25 * frame.geographic_risk + 20 * frame.protection_risk
            NearestTenth(field, x, unit) ==
                2 * Abs(field * (unit \div 10) - x) <= unit \div 10
        IN  /\ frame.overall_score = exact
            /\ NearestTenth(result.overall_score, exact, OverallUnit)
            /\ NearestTenth(result.property_risk, frame.property_risk, SubUnit)
            /\ NearestTenth(result.claims_risk, frame.claims_risk, SubUnit)
            /\ NearestTenth(result.geographic_risk, frame.geographic_risk, SubUnit)
            /\ NearestTenth(result.protection_risk, frame.protection_risk, SubUnit)
            /\ Abs(100 * result.overall_score
                   - (25 * result.property_risk + 30 * result.claims_risk
                      + 25 * result.geographic_risk + 20 * result.protection_risk))
                   <= 100

\* a result whose overall_score field differs from the combination of its fields
C3_Witness ==
    /\ Scored
    /\ 100 * result.overall_score #
           25 * result.property_risk + 30 * result.claims_risk
           + 25 * result.geographic_risk + 20 * result.protection_risk

SubScoresInRange ==
    /\ frame.property_risk \in 0..(100 * SubUnit)
    /\ frame.claims_risk \in 0..(100 * SubUnit)
    /\ frame.geographic_risk \in 0..(100 * SubUnit)
    /\ frame.protection_risk \in 0..(100 * SubUnit)

\* C4: whatever the Wildfire Risk Score and Crime Score cells carry, each of the
\* four sub-scores lies in [0, 100].
C4_SubScoresInRange == Scored => SubScoresInRange

\* C5: the weights sum to 1, and when the four sub-scores are within [0, 100]
\* so is the overall score.
C5_WeightsAndOverallRange ==
    /\ weights.property + weights.claims + weights.geographic + weights.protection = 100
    /\ (Scored /\ SubScoresInRange) =>
           /\ frame.overall_score \in 0..(100 * OverallUnit)
           /\ result.overall_score \in 0..1000

\* a result in the top tier, all of whose sub-scores are within [0, 100]
C5_Witness ==
    /\ Scored
    /\ SubScoresInRange
    /\ result.overall_score >= 800

\* the call has returned or raised
Returned == result.status # "none"

\* C6: with a ledger of zero rows the call returns, and returns what it returns
\* with no ledger at all.
C6_EmptyLedgerAsNoLedger ==
    (Returned /\ claims_df.present /\ empty(claims_df)) =>
        /\ result.status = "ok"
        /\ result = calculate_all_risk_scores(row, NoLedger, <<>>).result

\* a cell that is missing or empty
BlankCell(f) ==
    \/ row[f].k \in {"absent", "nan"}
    \/ row[f].k = "str" /\ (IF f \in CatFields THEN row[f].s = "" ELSE row[f].s = <<>>)

AllBlank == \A f \in Fields : BlankCell(f)

NotableInOrder ==
    LET order == CHOOSE o \in Orders(CollectedTypes(row, claims_df)) : TRUE
    IN  calculate_property_risk(row).factors
        \o calculate_claims_risk(row, claims_df, order).factors
        \o calculate_geographic_risk(row).factors
        \o calculate_protection_risk(row).factors

\* C8: top_factors is the prefix of length min(5, total) of the concatenation
\* property + claims + geographic + protection of the notable factors.
C8_TopFactorsIsPrefix ==
    Scored =>
        \E all \in {NotableInOrder} :
            /\ Len(result.top_factors) = (IF Len(all) < 5 THEN Len(all) ELSE 5)
            /\ \A i \in 1..Len(result.top_factors) : result.top_factors[i] = all[i]

\* more than five notable factors, the protection ones crowded out
C8_Witness ==
    /\ Scored
    /\ Len(NotableInOrder) > 5
    /\ Len(result.top_factors) = 5
    /\ \E protection_notable \in {calculate_protection_risk(row).factors} :
           /\ protection_notable # <<>>
           /\ \A i \in 1..5 : \A j \in 1..Len(protection_notable) :
                  result.top_factors[i] # protection_notable[j]

\* C9: with no ledger the claim count and the loss amount are the record's own
\* summary fields read through the normalizer; 'Loss History - Count' = "3"
\* gives the count component of 3 (40), and "" gives that of 0 (15).
C9_SummaryFallback ==
    (Scored /\ ~claims_df.present) =>
        LET count == get(row, "Loss History - Count")
        IN  /\ frame.loss_count = safe_int(count, 0)
            /\ frame.loss_amount = safe_float(get(row, "Loss History - Total Amount"), 0)
            /\ count = Str(<<"3">>) =>
                   frame.loss_count = 3 /\ frame.claims_scores[1] = 40
            /\ count = Str(<<>>) =>
                   frame.loss_count = 0 /\ frame.claims_scores[1] = 15

\* a record with 'Loss History - Count' = "3" scored with no ledger
C9_Witness ==
    /\ Scored
    /\ ~claims_df.present
    /\ row["Loss History - Count"] = Str(<<"3">>)
    /\ frame.claims_scores[1] = 40

\* the amount column over the matched rows: whether every cell converts, and
\* the sum of the converted cells
LedgerAmountOf(m, col) ==
    LET cells == [i \in 1..Len(m) |-> AmountCell(claims_df.rows[m[i]][col])]
    IN  [usable |-> col # 0 /\ \A i \in 1..Len(m) : cells[i].ok,
         total  |-> IF col # 0 /\ \A i \in 1..Len(m) : cells[i].ok
                    THEN SumSeq([i \in 1..Len(m) |-> cells[i].v]) ELSE 0]

LedgerAmount == LedgerAmountOf(MatchedClaims(row, claims_df), TargetCol(claims_df))

NoIdMatch ==
    LET row_id == get(row, "Agency Customer ID")
        col    == ColPos(claims_df, C_AgencyCustomerID)
    IN  \/ row_id.k # "str"
        \/ row_id.s = ""
        \/ col = 0
        \/ \A i \in 1..Len(claims_df.rows) :
              ~(claims_df.rows[i][col].k = "str"
                /\ claims_df.rows[i][col].s = row_id.s)

\* no ledger row carries the record's address: the address is empty or 'nan',
\* or no cell of an address-like column contains it, raw or normalized
NoAddrMatch ==
    \E addr \in {RowAddr(row)} :
        \/ addr = <<>>
        \/ addr = T_nan
        \/ \A i \in 1..Len(claims_df.rows) :
           \A c \in 1..Len(claims_df.cols) :
              (claims_df.cols[c] \in {C_StreetAddress, C_Location})
              => \E cell \in {lower(str(claims_df.rows[i][c]))} :
                    /\ ~Contains(cell, addr)
                    /\ ~Contains(Normalize(cell, 1), Normalize(addr, 1))

\* C11: when a non-empty ledger is supplied and no row of it matches the
\* record by identifier or by address, the returned claims score, notable
\* factors, breakdown and loss-type string (and with them the whole result)
\* are those of the same record scored with no ledger at all.
C11_NoMatchAsNoLedger ==
    (Returned /\ claims_df.present /\ ~empty(claims_df)
     /\ NoIdMatch /\ NoAddrMatch)
    => \E none \in {calculate_all_risk_scores(row, NoLedger, <<>>)} :
          /\ result = none.result
          /\ frame = none.frame

\* a record with an identifier and an address, scored against a one-row
\* ledger of another customer at another address
C11_Witness ==
    /\ Scored /\ claims_df.present /\ Len(claims_df.rows) = 1
    /\ NoIdMatch /\ NoAddrMatch
    /\ get(row, "Agency Customer ID").k = "str"
    /\ RowAddr(row) # <<>>
    /\ ColPos(claims_df, C_AgencyCustomerID) # 0
    /\ ~frame.match_found
    /\ frame.loss_count = 16

\* ------------------------------------------------------------------ C12
\* the batch processor returned a table
BatchReturned == scored_df.status = "ok"

\* the eight score cells of a table row
ScoreCells(r) == [col \in ScoreCols |-> r[col]]

\* the score cells the batch processor gives row i of the caller's table when
\* that row is the only row of the table, with the same ledger
AloneScores(i) ==
    {ScoreCells(out.heap[out.ref][1]) :
        out \in add_risk_scores_to_df(<< <<heap[1][i]>> >>, 1, claims_df)}

\* C12: the batch processor scores the rows independently: the score columns
\* of a row depend only on that row's own fields and the ledger, so they are
\* the ones the row gets in a table of its own, whatever the other rows and
\* whatever the row order.
C12_RowsScoredIndependently ==
    BatchReturned
    => \A i \in 1..Len(heap[1]) :
          AloneScores(i) = {ScoreCells(heap[scored_df.ref][i])}

\* ------------------------------------------------------------------ C13
\* the text is the factors in order with ' | ' between neighbours
PipeJoined(text, factors) ==
    /\ Len(text) = (IF factors = <<>> THEN 0 ELSE 2 * Len(factors) - 1)
    /\ \A j \in 1..Len(factors) : text[2 * j - 1] = factors[j]
    /\ \A j \in 1..(Len(factors) - 1) : text[2 * j] = " | "

\* the score columns of table row r show the RiskScores res
ColumnsShow(r, res) ==
    /\ res.status = "ok"
    /\ r["Property_Risk_Score"].k = "num"
    /\ r["Property_Risk_Score"].v * 10 = res.property_risk * FloatScale
    /\ r["Claims_Risk_Score"].k = "num"
    /\ r["Claims_Risk_Score"].v * 10 = res.claims_risk * FloatScale
    /\ r["Geographic_Risk_Score"].k = "num"
    /\ r["Geographic_Risk_Score"].v * 10 = res.geographic_risk * FloatScale
    /\ r["Protection_Risk_Score"].k = "num"
    /\ r["Protection_Risk_Score"].v * 10 = res.protection_risk * FloatScale
    /\ r["Overall_Risk_Score"].k = "num"
    /\ r["Overall_Risk_Score"].v * 10 = res.overall_score * FloatScale
    /\ r["Risk_Level"] = Cat(res.risk_level)
    /\ r["Recommendation"] = Cat(res.recommendation)
    /\ r["Top_Risk_Factors"].k = "str"
    /\ PipeJoined(r["Top_Risk_Factors"].s, res.top_factors)

\* the score columns of table row r are those of the aggregator applied to the
\* record 'of' and the ledger
ColumnsOf(r, of) ==
    \A order \in Orders(CollectedTypes(of, claims_df)) :
        ColumnsShow(r, calculate_all_risk_scores(of, claims_df, order).result)

\* C13 as stated: for every row, the appended score columns (four sub-scores,
\* overall score, risk level, recommendation, ' | '-joined top factors) equal
\* the aggregator's result for that same input row and the ledger, rows with
\* missing or empty fields included.
C13_ColumnsOfInputRow ==
    BatchReturned
    => \A i \in 1..Len(heap[1]) : ColumnsOf(heap[scored_df.ref][i], heap[1][i])

\* C13 amended: for every row, the appended score columns equal the
\* aggregator's result for that row as the returned table holds it, that is
\* the input row with its missing or empty fields filled with the batch
\* processor's fallback values, and the ledger.
C13_ColumnsOfReturnedRow ==
    BatchReturned
    => /\ Len(heap[scored_df.ref]) = Len(heap[1])
       /\ \A i \in 1..Len(heap[1]) :
             ColumnsOf(heap[scored_df.ref][i], heap[scored_df.ref][i])

\* a returned table whose first row had its empty construction type filled
\* with 'Frame' and shows more than one top factor; its columns are not those
\* of the aggregator on the input row
C13_Witness ==
    /\ BatchReturned
    /\ heap[1] # <<>>
    /\ heap[1][1]["Construction Type"] = Cat("")
    /\ heap[scored_df.ref][1]["Construction Type"] = Cat("Frame")
    /\ Len(heap[scored_df.ref][1]["Top_Risk_Factors"].s) >= 3
    /\ ~ColumnsOf(heap[scored_df.ref][1], heap[1][1])

\* ------------------------------------------------------------------ C14
\* C14: a call of the batch processor returns a new table and leaves its
\* inputs as they were: the caller's property table has the same columns and
\* cells after the call as before it (no filled default, no score column), and
\* the ledger is unchanged.
C14_InputsUnchanged ==
    [][(scored_df.status = "none" /\ scored_df'.status # "none")
       => /\ heap'[1] = heap[1]
          /\ claims_df' = claims_df
          /\ scored_df'.status = "ok" => scored_df'.ref # 1]_vars

\* after a call that returned: the caller's table still has an empty
\* construction type and no score column, the returned table is another
\* object that has the default and the score
C14_Witness ==
    /\ BatchReturned
    /\ scored_df.ref # 1
    /\ heap[1] # <<>>
    /\ heap[1][1]["Construction Type"] = Cat("")
    /\ heap[1][1]["Overall_Risk_Score"].k = "absent"
    /\ heap[scored_df.ref][1]["Construction Type"] = Cat("Frame")
    /\ heap[scored_df.ref][1]["Overall_Risk_Score"].k = "num"
    /\ claims_df.present

\* ------------------------------------------------------------------ C15
\* C15: scoring is deterministic: the returned RiskScores is the same in every
\* field, the 'Loss Types' breakdown text built from the collected set of
\* loss types included, whenever the record and the ledger are the same, so
\* the result returned is the only one the call can return.
C15_SameInputsSameResult ==
    Scored
    => \A order \in Orders(CollectedTypes(row, claims_df)) :
          calculate_all_risk_scores(row, claims_df, order).result = result

\* ------------------------------------------------------------------ C16
\* the construction types from the least to the most combustible
ConstructionOrder ==
    <<"Fire Resistive", "Non-Combustible", "Masonry Non-Combustible",
      "Joisted Masonry", "Frame">>

\* the property sub-score of the record with its construction type replaced
PropertyScoreWith(t) ==
    calculate_property_risk([row EXCEPT !["Construction Type"] = Cat(t)]).score

\* C16: all else equal, the property sub-score does not decrease along
\* Fire Resistive <= Non-Combustible <= Masonry Non-Combustible <=
\* Joisted Masonry <= Frame; the sub-score a scored record got is the one of
\* its own type in that chain.
C16_MonotoneInConstruction ==
    /\ \A i \in 1..(Len(ConstructionOrder) - 1) :
          PropertyScoreWith(ConstructionOrder[i])
             <= PropertyScoreWith(ConstructionOrder[i + 1])
    /\ \A i \in 1..Len(ConstructionOrder) :
          (Scored /\ row["Construction Type"] = Cat(ConstructionOrder[i]))
          => frame.property_risk = PropertyScoreWith(ConstructionOrder[i])

\* a scored Fire Resistive record whose sub-score would be higher as Frame
C16_Witness ==
    /\ Scored
    /\ row["Construction Type"] = Cat("Fire Resistive")
    /\ frame.property_risk < PropertyScoreWith("Joisted Masonry")
    /\ PropertyScoreWith("Joisted Masonry") < PropertyScoreWith("Frame")

\* ------------------------------------------------------------------ C17
\* C17: each sub-score is the unweighted arithmetic mean of its component
\* scores: four for property, three for claims, four for geographic, three
\* for protection.  Frame / 1950 / Poor / 0% sprinklered gives a property
\* sub-score of 78.75 and class 9 / no alarm / 20 miles a protection
\* sub-score of 78.33 (235 / 3).
C17_SubScoreIsMean ==
    Scored
    => /\ Len(frame.property_scores) = 4
       /\ 4 * frame.property_risk = SumSeq(frame.property_scores) * SubUnit
       /\ Len(frame.claims_scores) = 3
       /\ 3 * frame.claims_risk = SumSeq(frame.claims_scores) * SubUnit
       /\ Len(frame.geographic_scores) = 4
       /\ 4 * frame.geographic_risk * FloatScale
             = SumSeq(frame.geographic_scores) * SubUnit
       /\ Len(frame.protection_scores) = 3
       /\ 3 * frame.protection_risk = SumSeq(frame.protection_scores) * SubUnit
       /\ (/\ row["Construction Type"] = Cat("Frame")
           /\ row["Year Built"] = Num(1950)
           /\ row["Verified Roof Condition"] = Cat("Poor")
           /\ row["Sprinklered %"] = Num(0))
          => 100 * frame.property_risk = 7875 * SubUnit
       /\ (/\ row["Fire Protection Class"] = Num(9)
           /\ row["Burglar Alarm Type"] = Cat("None")
           /\ row["Distance to Fire Station (miles)"] = Num(20))
          => 3 * frame.protection_risk = 235 * SubUnit

\* the scored Frame / 1950 / Poor / 0% record with class 9, no alarm, 20 miles
C17_Witness ==
    /\ Scored
    /\ row["Construction Type"] = Cat("Frame")
    /\ row["Year Built"] = Num(1950)
    /\ row["Verified Roof Condition"] = Cat("Poor")
    /\ row["Sprinklered %"] = Num(0)
    /\ row["Fire Protection Class"] = Num(9)
    /\ row["Burglar Alarm Type"] = Cat("None")
    /\ row["Distance to Fire Station (miles)"] = Num(20)
    /\ frame.property_scores = <<80, 80, 80, 75>>
    /\ frame.protection_scores = <<80, 80, 75>>
    /\ result.property_risk = 788
    /\ result.protection_risk = 783

\* ------------------------------------------------------------------ C18
\* the construction component the claim names for a cell: the table's score
\* for a mapped type, else 50
ConstructionByTable(cell) ==
    IF cell.k = "str" /\ cell.s \in DOMAIN CONSTRUCTION_RISK
    THEN CONSTRUCTION_RISK[cell.s] ELSE 50

\* a construction notable factor was reported
ConstructionFactor ==
    \E i \in 1..Len(frame.all_notable) : frame.all_notable[i].kind = "Construction Type"

SprinklerPct == safe_float(get(row, "Sprinklered %"), 50 * FloatScale)

\* a low-sprinkler notable factor was reported
LowSprinklerFactor ==
    \E i \in 1..Len(frame.all_notable) :
        frame.all_notable[i].kind = "Low Sprinkler Coverage"

\* C19 as stated: the sprinkler component is 20 when the sprinklered
\* percentage is above 70, 45 when it is from 30 to 70 inclusive, and 75 when
\* it is below 30; the low-sprinkler notable factor is present exactly in the
\* 75 case.
C19_SprinklerComponent ==
    Scored
    => /\ SprinklerPct > 70 * FloatScale => frame.property_scores[4] = 20
       /\ (30 * FloatScale <= SprinklerPct /\ SprinklerPct <= 70 * FloatScale)
          => frame.property_scores[4] = 45
       /\ SprinklerPct < 30 * FloatScale => frame.property_scores[4] = 75
       /\ LowSprinklerFactor <=> frame.property_scores[4] = 75

\* C19 amended: the sprinkler component is 20 when the sprinklered percentage
\* is above 70, 45 when it is above 30 and at most 70, and 75 when it is 30 or
\* below; the low-sprinkler notable factor is present exactly in the 75 case.
C19_SprinklerComponentAbove30 ==
    Scored
    => /\ SprinklerPct > 70 * FloatScale => frame.property_scores[4] = 20
       /\ (30 * FloatScale < SprinklerPct /\ SprinklerPct <= 70 * FloatScale)
          => frame.property_scores[4] = 45
       /\ SprinklerPct <= 30 * FloatScale => frame.property_scores[4] = 75
       /\ LowSprinklerFactor <=> frame.property_scores[4] = 75

\* a scored record sprinklered exactly 30%: component 75 and the factor
C19_Witness ==
    /\ Scored
    /\ row["Sprinklered %"] = Str(<<"3", "0", "%">>)
    /\ SprinklerPct = 30 * FloatScale
    /\ frame.property_scores[4] = 75
    /\ LowSprinklerFactor

\* ------------------------------------------------------------------ C20
\* the Year Built cells of the records, with the year the claim gives each:
\* the year written in the cell, 1970 for a missing, empty or unparseable one
YearOfCell ==
    { <<Absent, 1970>>, <<NaN, 1970>>, <<Str(<<>>), 1970>>,
      <<Str(<<"N", "/", "A">>), 1970>>,
      <<Str(<<"1", "9", "7", "4">>), 1974>>, <<Str(<<"1", "9", "7", "5">>), 1975>>,
      <<Str(<<"2", "0", "0", "0">>), 2000>>,
      <<Num(1950), 1950>>, <<Num(1989), 1989>>, <<Num(1990), 1990>>,
      <<Num(2020), 2020>> }

\* a building-age notable factor reporting the age a
BuildingAgeFactor(a) ==
    \E i \in 1..Len(frame.all_notable) :
        frame.all_notable[i] = Factor("Building Age", "", a)

\* C20: the building age is 2025 minus Year Built, with Year Built taken as
\* 1970 when missing, empty or unparseable; an age above 50 scores 80 with a
\* notable factor, an age above 25 and up to 50 scores 50, an age of 25 or
\* less scores 20, and only the first case reports the factor.
C20_BuildingAge ==
    Scored
    => /\ \E p \in YearOfCell : p[1] = row["Year Built"]
       /\ \A p \in YearOfCell :
             p[1] = row["Year Built"]
             => \E age \in {2025 - p[2]} :
                   /\ result.property_factors[2] = Factor("Year Built", "", p[2])
                   /\ age > 50 => frame.property_scores[2] = 80
                   /\ (25 < age /\ age <= 50) => frame.property_scores[2] = 50
                   /\ age <= 25 => frame.property_scores[2] = 20
                   /\ age > 50 => BuildingAgeFactor(age)
                   /\ (\E i \in 1..Len(frame.all_notable) :
                          frame.all_notable[i].kind = "Building Age") <=> age > 50

\* a scored record whose Year Built is the text N/A: age 55, component 80 and
\* the factor
C20_Witness ==
    /\ Scored
    /\ row["Year Built"] = Str(<<"N", "/", "A">>)
    /\ frame.property_scores[2] = 80
    /\ BuildingAgeFactor(55)

\* ------------------------------------------------------------------ C21
\* a high-claim-count notable factor was reported
HighClaimCountFactor ==
    \E i \in 1..Len(frame.all_notable) : frame.all_notable[i].kind = "High Claim Count"

\* the claim counts the buckets are compared on
CountsCompared == 0..MaxCount

\* C21: the claim-count component puts the reconciled claim count in exactly
\* one bucket: above 15 gives 90 with the high-claim-count notable factor,
\* above 5 up to 15 gives 60, above 2 up to 5 gives 40, 2 or fewer gives 15;
\* the component does not decrease as the count grows.
C21_ClaimCountComponent ==
    /\ Scored
       => /\ frame.loss_count > 15 => frame.claims_scores[1] = 90
          /\ (5 < frame.loss_count /\ frame.loss_count <= 15)
             => frame.claims_scores[1] = 60
          /\ (2 < frame.loss_count /\ frame.loss_count <= 5)
             => frame.claims_scores[1] = 40
          /\ frame.loss_count <= 2 => frame.claims_scores[1] = 15
          /\ HighClaimCountFactor <=> frame.loss_count > 15
    /\ \A a \in CountsCompared : \A b \in CountsCompared :
          a <= b => CountScore(a) <= CountScore(b)

\* a scored record with exactly five claims: component 40, no factor
C21_Witness ==
    /\ Scored
    /\ frame.loss_count = 5
    /\ frame.claims_scores[1] = 40
    /\ ~HighClaimCountFactor

\* ------------------------------------------------------------------ C22
\* the loss-type component the claim gives a text, by fixed priority
TypeByPriority(text) ==
    IF Contains(text, <<"F","i","r","e">>) THEN 80
    ELSE IF Contains(text, <<"F","l","o","o","d">>)
            \/ Contains(text, <<"T","o","r","n","a","d","o">>) THEN 70
    ELSE IF Contains(text, <<"T","h","e","f","t">>)
            \/ Contains(text, <<"V","a","n","d","a","l","i","s","m">>) THEN 40
    ELSE 30

\* a fire notable factor was reported
FireFactor ==
    \E i \in 1..Len(frame.all_notable) : frame.all_notable[i].kind = "Fire Loss History"

\* the type text shown in the claims breakdown for a loss-type string
TypesShown(text) == IF strip(text) # <<>> THEN strip(text) ELSE <<"N","/","A">>

\* the loss-type component, the breakdown text and the fire factor are those
\* of the loss-type string 'text'
TypeComponentOf(text) ==
    /\ frame.claims_scores[3] = TypeByPriority(text)
    /\ result.claims_factors[1].types = TypesShown(text)
    /\ FireFactor <=> TypeByPriority(text) = 80

\* the record's own 'Loss History - Type', as text
OwnTypes ==
    IF row["Loss History - Type"].k = "absent" THEN <<>>
    ELSE str(row["Loss History - Type"])

\* C22 as stated: the loss-type component is chosen by fixed priority over the
\* loss-type string (Fire 80 with the fire notable factor, else Flood or
\* Tornado 70, else Theft or Vandalism 40, else 30); the string is the union
\* of the type-like fields of the matched claims when matching succeeded, and
\* otherwise the record's own Loss History - Type.
C22_TypeComponent ==
    Scored
    => IF frame.match_found
       THEN \E order \in Orders(CollectedTypes(row, claims_df)) :
               TypeComponentOf(Join(order, <<",", " ">>))
       ELSE TypeComponentOf(OwnTypes)

\* C22 amended: the same priority; the string is the union of the type-like
\* fields of the matched claims when matching succeeded and those fields hold
\* at least one value, and otherwise the record's own Loss History - Type.
C22_TypeComponentWhenCollected ==
    Scored
    => IF frame.match_found /\ CollectedTypes(row, claims_df) # {}
       THEN \E order \in Orders(CollectedTypes(row, claims_df)) :
               TypeComponentOf(Join(order, <<",", " ">>))
       ELSE TypeComponentOf(OwnTypes)

\* a scored record of type Fire matched to a ledger row that names no type:
\* the component is the 80 of the record's own type
C22_Witness ==
    /\ Scored
    /\ frame.match_found
    /\ CollectedTypes(row, claims_df) = {}
    /\ OwnTypes = <<"F","i","r","e">>
    /\ frame.claims_scores[3] = 80
    /\ FireFactor

\* ------------------------------------------------------------------ C23
\* the key of field f is missing from the record
KeyMissing(f) == row[f].k = "absent"

\* the cell of field f is present and empty ('' or NaN)
CellEmpty(f) ==
    \/ row[f].k = "nan"
    \/ row[f].k = "str" /\ (IF f \in CatFields THEN row[f].s = "" ELSE row[f].s = <<>>)

\* the four geographic fields
GeoFields == {"Wildfire Risk Score", "FEMA Flood Zone", "Earthquake Zone", "Crime Score"}

\* no geographic notable factor was reported
NoGeoFactor ==
    \A i \in 1..Len(frame.all_notable) :
        frame.all_notable[i].kind \notin
            {"High Wildfire Risk", "FEMA Flood Zone", "Earthquake Zone", "High Crime Score"}

FpcRead == safe_int(get(row, "Fire Protection Class"), 5)

\* the distance to the fire station the calculator reads, in hundredths of a mile
DistanceRead ==
    safe_float(DistVal(row, get(row, "Distance to Fire Station (miles)")), 10 * FloatScale)

\* a notable factor of kind k was reported
NotableOfKind(k) ==
    \E i \in 1..Len(frame.all_notable) : frame.all_notable[i].kind = k

\* the class and distance components with their notable factors, as the
\* claim gives them
FpcAndDistanceComponents ==
    /\ frame.protection_scores[1] =
          (IF FpcRead >= 8 THEN 80 ELSE IF FpcRead >= 5 THEN 50 ELSE 20)
    /\ NotableOfKind("Poor Fire Protection Class") <=> FpcRead >= 8
    /\ frame.protection_scores[3] =
          (IF DistanceRead > 15 * FloatScale THEN 75
           ELSE IF DistanceRead > 5 * FloatScale THEN 45 ELSE 20)
    /\ NotableOfKind("Far from Fire Station") <=> DistanceRead > 15 * FloatScale

\* the alarm component of a present alarm cell: its table score, 50 when the
\* cell is empty or no key of the table
AlarmOfPresentCell ==
    LET alarm == row["Burglar Alarm Type"]
    IN  IF alarm.k = "str" /\ alarm.s \in DOMAIN BURGLAR_ALARM_RISK
        THEN BURGLAR_ALARM_RISK[alarm.s] ELSE 50

Parsed(val, f, i) == [val |-> val, parses |-> TRUE, f |-> f, i |-> i]
Unparsed(val)     == [val |-> val, parses |-> FALSE, f |-> 0, i |-> 0]

NormalizerCases ==
    { Unparsed(NaN), Unparsed(Str(<<>>)), Unparsed(ListCell),
      Unparsed(Str(<<"h", "i", "g", "h">>)), Unparsed(Str(<<"N", "/", "A">>)),
      Unparsed(Str(<<"C", "l", "a", "s", "s", " ", "9">>)),
      Parsed(Str(<<" ", "4", "5", "%", " ">>), 4500, 45),
      Parsed(Str(<<"$", "1", ",", "2", "3", "4", ".", "5", "6">>), 123456, 1234),
      Parsed(Str(<<"-", "1", "2", ".", "9">>), 0 - 1290, 0 - 12),
      Parsed(Str(<<"8", ".", "9">>), 890, 8),
      Parsed(Str(<<"-", "1", ".", "5">>), 0 - 150, 0 - 1),
      Parsed(Str(<<"9", "9", ".", "1", "1">>), 9911, 99),
      Parsed(Str(<<"8", "4">>), 8400, 84), Parsed(Str(<<"9", "2">>), 9200, 92),
      Parsed(Str(<<"4">>), 400, 4), Parsed(Str(<<"5">>), 500, 5),
      Parsed(Str(<<"7">>), 700, 7), Parsed(Str(<<"8">>), 800, 8),
      Parsed(Num(1), 100, 1), Parsed(Num(3), 300, 3), Parsed(Num(5), 500, 5),
      Parsed(Num(9), 900, 9), Parsed(Num(10), 1000, 10),
      Parsed(Num(50), 5000, 50), Parsed(Num(81), 8100, 81),
      Parsed(Num(90), 9000, 90) }

\* the case of the value row.get(field) hands to a normalizer
CaseOf(c, field) == c.val = get(row, field)

\* C25: the normalizers never raise: for a missing or NaN value, an empty
\* string, non-numeric text, text with $ , % symbols, a list or another
\* object, safe_float returns the parsed float of the symbol-stripped text or
\* else the supplied default, and safe_int returns that value truncated to an
\* integer or else the default.  Checked on the crime score (safe_float,
\* default 50) and the fire protection class (safe_int, default 5) of every
\* scored record.
C25_NormalizersTotal ==
    Scored
    => /\ \E c \in NormalizerCases :
             /\ CaseOf(c, "Crime Score")
             /\ frame.geographic_scores[4] = (IF c.parses THEN c.f ELSE 50 * FloatScale)
       /\ \E c \in NormalizerCases :
             /\ CaseOf(c, "Fire Protection Class")
             /\ result.protection_factors[1].n = (IF c.parses THEN c.i ELSE 5)

\* a scored record whose crime score is a list: the component is the default 50
C25_Witness ==
    /\ Scored
    /\ row["Crime Score"] = ListCell
    /\ frame.geographic_scores[4] = 50 * FloatScale

\* ------------------------------------------------------------------ C26
Summarized == summary.status = "ok"

\* the integer part of an overall score held in tenths
IntScore(tenths) == IF tenths >= 0 THEN tenths \div 10 ELSE 0 - ((0 - tenths) \div 10)

\* the construction in the property breakdown is Frame or Wood
FrameOrWood(property_factors) == property_factors[1].s \in {"Frame", "Wood"}

\* the loss types in the claims breakdown contain 'Fire'
NamesFire(claims_factors) == Contains(claims_factors[1].types, T_Fire)

\* the result of scoring the record with field f holding v instead
Rescored(f, v) ==
    calculate_all_risk_scores([row EXCEPT ![f] = v], claims_df,
        CHOOSE order \in Orders(CollectedTypes(row, claims_df)) : TRUE).result

\* results of records that differ from the scored one in the wildfire score
\* or in the construction type
OtherResults ==
    {Rescored("Wildfire Risk Score", v) :
        v \in {Str(<<"6", "5">>), Str(<<"6", "0">>), Str(<<"-", "1", "0", "0">>)}}
    \cup {Rescored("Construction Type", v) : v \in {Cat("Wood"), Cat("Steel")}}

\* two results with the same risk level, the same sub-scores at or above 60
\* and the same top factors
SameLevelDriversFactors(r1, r2) ==
    /\ r1.risk_level = r2.risk_level
    /\ RiskDrivers(r1) = RiskDrivers(r2)
    /\ r1.top_factors = r2.top_factors

\* C26 as stated: the narrative generated without an llm is a function only
\* of risk_level, the set of sub-scores that are >= 60 and the top_factors
\* text: two results that agree on the three give the same narrative,
\* whatever their overall_score and breakdown lists.
C26_NarrativeOfLevelDriversFactors ==
    Summarized
    => \A r2 \in OtherResults :
          SameLevelDriversFactors(result, r2) => generate_analysis_summary(r2) = summary

\* C26 amended: two results of the aggregator that agree on risk_level, on
\* the set of sub-scores that are >= 60, on the top_factors text, on the
\* integer part of overall_score, on whether the construction in the property
\* breakdown is Frame or Wood and on whether the claims breakdown contains
\* 'Fire' give the same narrative.
C26_NarrativeOfLevelScoreDriversFactors ==
    Summarized
    => \A r2 \in OtherResults :
          ( /\ SameLevelDriversFactors(result, r2)
            /\ IntScore(result.overall_score) = IntScore(r2.overall_score)
            /\ FrameOrWood(result.property_factors) = FrameOrWood(r2.property_factors)
            /\ NamesFire(result.claims_factors) = NamesFire(r2.claims_factors) )
          => generate_analysis_summary(r2) = summary

\* a narrative that is also the narrative of a result with another overall
\* score field and another geographic sub-score
C26_Witness ==
    /\ Summarized
    /\ \E r2 \in OtherResults :
          /\ SameLevelDriversFactors(result, r2)
          /\ r2.overall_score # result.overall_score
          /\ r2.geographic_risk # result.geographic_risk
          /\ IntScore(result.overall_score) = IntScore(r2.overall_score)
          /\ generate_analysis_summary(r2) = summary

\* ------------------------------------------------------------------ C27
\* the positions of the top factors whose text contains 'sprinkler'
SprinklerPositions ==
    {i \in 1..Len(result.top_factors) : "sprinkler" \in FactorWords(result.top_factors[i])}

\* the action list of the narrative names the sprinkler action
SprinklerAction ==
    \E i \in 1..Len(summary.actions) :
        summary.actions[i] = "Mandate sprinkler system installation"

\* C27: for every result of the aggregator, when an entry of top_factors
\* contains 'sprinkler', the action list of the narrative has the sprinkler
\* action, whatever the position of the factor in top_factors and although the
\* list is cut to five actions.
C27_SprinklerActionListed ==
    (Summarized /\ SprinklerPositions # {}) => SprinklerAction

\* a narrative whose sprinkler factor is the fourth top factor, beyond the
\* three the loop reads, and whose five actions include the sprinkler action
C27_Witness ==
    /\ Summarized
    /\ SprinklerPositions = {4}
    /\ Len(summary.actions) = 5
    /\ SprinklerAction

\* ------------------------------------------------------------------ C28
\* C28: supplying a claims ledger never lowers the claim-count or the
\* loss-amount component compared with scoring the same record with no
\* ledger: the call with the ledger returns, with a count component and an
\* amount component at least those of the record's own count and amount.
C28_LedgerNeverLowers ==
    (Returned /\ claims_df.present)
    => /\ result.status = "ok"
       /\ frame.claims_scores[1] >= CountScore(SummaryCount(row))
       /\ frame.claims_scores[2] >= AmountScore(SummaryAmount(row))

\* ------------------------------------------------------------------ C29
\* the final text the reports show for each level and recommendation
TextOfTier ==
    { <<"LOW", "AUTO-BIND ELIGIBLE", "may qualify for auto-bind processing">>,
      <<"MEDIUM", "STANDARD REVIEW", "requires standard underwriting review">>,
      <<"HIGH", "REFER TO SENIOR UNDERWRITER", "referred to senior underwriting">>,
      <<"VERY HIGH", "DECLINE OR SPECIAL REVIEW",
        "decline or referral to specialized underwriting">> }

\* C29: for every scored row, the tier the PDF and HTML reports derive from
\* the stored Overall_Risk_Score (the final text, by the thresholds 45 / 60 /
\* 80) is the tier of the row's Risk_Level and Recommendation columns: no
\* auto-bind text next to MEDIUM, no standard-review text next to LOW, and so
\* on for the other tiers.
C29_ReportTierIsRowTier ==
    BatchReturned
    => \A i \in 1..Len(heap[scored_df.ref]) :
          LET r == heap[scored_df.ref][i]
          IN  /\ <<r["Risk_Level"].s, r["Recommendation"].s,
                   generate_final_recommendation(r)>> \in TextOfTier
              /\ <<r["Risk_Level"].s, r["Recommendation"].s,
                   generate_recommendation_text(r)>> \in TextOfTier

\* the steps of analyze_pdf_attachment, in the order of its code
StepOrder == <<"extract", "prepare", "analyze", "report">>

\* step 3 ran and did not fail
AnalysisSucceeded == Len(run.steps) >= 3 /\ run.failed # 3

\* C30: analyze_pdf_attachment runs extract, prepare, analyze and report in
\* that order and stops at the first step that fails, so that the steps run
\* are the first k of the four when step k failed; 'success' is returned True
\* only when all four steps ran and none failed, and then pdf_report_path is
\* not empty and error_message is empty; the analysis_summary returned is not
\* empty exactly when step 3 succeeded, also when only the report step failed
C30_StepsInOrderUntilFailure ==
    /\ Len(run.steps) <= 4
    /\ \A i \in 1..Len(run.steps) : run.steps[i] = StepOrder[i]
    /\ run.failed # 0 => Len(run.steps) = run.failed /\ run.pc = "returned"
    /\ run.out.success =>
          /\ run.pc = "returned" /\ Len(run.steps) = 4 /\ run.failed = 0
          /\ run.out.pdf_report_path # ""
          /\ run.out.error_message = ""
    /\ run.pc = "returned" =>
          /\ (run.out.analysis_summary # NoResult) <=> AnalysisSucceeded
          /\ AnalysisSucceeded => run.out.analysis_summary = result

\* the report step alone failed and the analysis is returned with the failure
C30_Witness ==
    /\ run.pc = "returned"
    /\ run.steps = StepOrder
    /\ run.failed = 4
    /\ ~run.out.success
    /\ run.out.analysis_summary.status = "ok"
    /\ run.out.analysis_summary = result
    /\ Len(claims_df.rows) = 1

====
